---- MODULE Spec2Model ----
(***************************************************************************)
(* key-hub: an LLM API gateway.  The model covers the in-memory store      *)
(* (packages/server/src/db/index.ts), the management routes over it, the   *)
(* /v1/chat/completions relay, the load balancer and the key checker jobs. *)
(*                                                                         *)
(* Node runs one handler at a time: a handler is atomic from one `await`   *)
(* to the next.  Every store function mutates db.data synchronously and    *)
(* only then awaits db.write(), so the in-memory mutation belongs to the   *)
(* step that calls the function, and other handlers interleave at the      *)
(* awaits (fetch, response.json(), reader.read(), db.write(), timers).     *)
(*                                                                         *)
(* Entity fields that no server code reads and no property below mentions  *)
(* (name, baseUrl, key secret, alias, createdAt, updatedAt, lastUsed,      *)
(* lastChecked, balance, testMethod, testModel) are left out of the        *)
(* records.                                                                *)
(***************************************************************************)
EXTENDS Integers, Sequences, FiniteSets, TLC

\* ------------------------------------------------------------------ bounds
\* How many entities (channels, keys, proxies together) a run of SpecStore creates.
MaxIds == 4
\* How many requests (relays and on-demand probes together) a run of SpecRelay starts.
MaxRequests == 3
\* How many entities and requests together a run of SpecKeys creates and starts.
MaxKeyOps == 3
\* How many relays a run of SpecLog starts.
MaxLogRelays == 1
\* How many times the clock of a run moves on.
MaxTime == 2

\* settings.maxLogsRetention (604800000 ms), in ticks of 30000 ms.
MaxLogsRetention == 20160

\* ------------------------------------------------------------------ values
\* proxyId: undefined
NoId == 0
\* an id no entity ever had (a caller may send any string)
BogusId == 99

ApiKeyStatus == {"active", "invalid", "quota_exceeded", "disabled", "unknown"}

\* Strings that the code inspects by prefix are sequences of characters.
gpt4 == <<"g", "p", "t", "-", "4">>
gpt4turbo == <<"g", "p", "t", "-", "4", "-", "t", "u", "r", "b", "o">>
gpt4o == <<"g", "p", "t", "-", "4", "o">>
gpt4omini == <<"g", "p", "t", "-", "4", "o", "-", "m", "i", "n", "i">>
gpt35turbo == <<"g", "p", "t", "-", "3", ".", "5", "-", "t", "u", "r", "b", "o">>
o1 == <<"o", "1">>
o1mini == <<"o", "1", "-", "m", "i", "n", "i">>
o1preview == <<"o", "1", "-", "p", "r", "e", "v", "i", "e", "w">>
claude3opus == <<"c", "l", "a", "u", "d", "e", "-", "3", "-", "o", "p", "u", "s">>
claude3sonnet == <<"c", "l", "a", "u", "d", "e", "-", "3", "-", "s", "o", "n", "n", "e", "t">>
claude3haiku == <<"c", "l", "a", "u", "d", "e", "-", "3", "-", "h", "a", "i", "k", "u">>
claude35sonnet == <<"c", "l", "a", "u", "d", "e", "-", "3", ".", "5", "-", "s", "o", "n", "n", "e", "t">>
claude3_5sonnet == <<"c", "l", "a", "u", "d", "e", "-", "3", "-", "5", "-", "s", "o", "n", "n", "e", "t">>
geminipro == <<"g", "e", "m", "i", "n", "i", "-", "p", "r", "o">>
gemini15pro == <<"g", "e", "m", "i", "n", "i", "-", "1", ".", "5", "-", "p", "r", "o">>
gemini15flash == <<"g", "e", "m", "i", "n", "i", "-", "1", ".", "5", "-", "f", "l", "a", "s", "h">>

OpenAITypes == {"openai", "openai-compatible"}

\* MODEL_CHANNEL_MAP, in the insertion order Object.entries walks it.
MODEL_CHANNEL_MAP ==
  << <<gpt4, OpenAITypes>>, <<gpt4turbo, OpenAITypes>>, <<gpt4o, OpenAITypes>>,
     <<gpt4omini, OpenAITypes>>, <<gpt35turbo, OpenAITypes>>, <<o1, OpenAITypes>>,
     <<o1mini, OpenAITypes>>, <<o1preview, OpenAITypes>>,
     <<claude3opus, {"anthropic"}>>, <<claude3sonnet, {"anthropic"}>>,
     <<claude3haiku, {"anthropic"}>>, <<claude35sonnet, {"anthropic"}>>,
     <<claude3_5sonnet, {"anthropic"}>>,
     <<geminipro, {"gemini"}>>, <<gemini15pro, {"gemini"}>>,
     <<gemini15flash, {"gemini"}>> >>

\* String.prototype.startsWith
startsWith(s, prefix) ==
  /\ Len(prefix) <= Len(s)
  /\ SubSeq(s, 1, Len(prefix)) = prefix

\* The first loop of findChannelForModel: the types of the first table entry
\* whose prefix the model starts with, else the openai fallback.
matchingTypes(model) ==
  LET hits == {i \in 1..Len(MODEL_CHANNEL_MAP) : startsWith(model, MODEL_CHANNEL_MAP[i][1])}
  IN IF hits = {} THEN OpenAITypes
     ELSE MODEL_CHANNEL_MAP[CHOOSE i \in hits : \A j \in hits : i <= j][2]

\* ------------------------------------------------------------------ state
VARIABLES
  channels,        \* db.data.channels : Seq of [id, type, proxyId, loadBalanceStrategy, enabled]
  apiKeys,         \* db.data.apiKeys  : Seq of [id, channelId, status, priority, weight, errorCount, totalRequests]
  proxies,         \* db.data.proxies  : Seq of [id, enabled]
  logs,            \* db.data.logs     : Seq of [req, timestamp, channelId, keyId, status, streaming]
  ids,             \* how many ids nanoid() has handed out: [channel, key, proxy, token]
  now,             \* Date.now(), in ticks of 30000 ms
  roundRobinIndex, \* loadBalancer.ts: channel id -> cursor (absent entries read as 0)
  relays,          \* the chat-completion requests, each at one of its awaits
  probes,          \* the checkSingleKey calls, each at one of its awaits
  jobs,            \* the runKeyCheck jobs, each at one of its awaits
  resp,            \* status of the latest management API response
  tokens,          \* db.data.tokens   : Seq of [id, token, allowedChannels, enabled] and, when set, rateLimit
  requestCounts,   \* middleware: token id -> [count, resetAt] (no entry until the limiter first runs for it)
  calls,           \* the /v1 requests so far: [tokenInfo, at, status, counted, relay]
  scheduledTask    \* scheduler: whether a cron task is scheduled (scheduledTask is not null)

\* What the relay handler and the store functions of channels, keys, proxies
\* and logs leave alone.
gateVars == <<tokens, requestCounts, calls, scheduledTask>>

vars == <<channels, apiKeys, proxies, logs, ids, now, roundRobinIndex, relays, probes, jobs, resp,
          tokens, requestCounts, calls, scheduledTask>>

\* ------------------------------------------------------------------ store
\* Array.prototype.findIndex, 1-based; 0 stands for -1.
findIndex(seq, id) ==
  IF \E i \in 1..Len(seq) : seq[i].id = id
  THEN CHOOSE i \in 1..Len(seq) : seq[i].id = id /\ \A j \in 1..(i - 1) : seq[j].id # id
  ELSE 0

\* Array.prototype.splice(index, 1)
splice(seq, index) == SubSeq(seq, 1, index - 1) \o SubSeq(seq, index + 1, Len(seq))

\* { ...entity, ...updates }
spread(entity, updates) ==
  [f \in DOMAIN entity \cup DOMAIN updates |->
     IF f \in DOMAIN updates THEN updates[f] ELSE entity[f]]

\* ------------------------------------------------------------------ faulty variants
\* Slips the store and the relay could have made; the properties at the end
\* hold of the code's definitions and fail of these.
\* deleteChannel without the cascade
deleteChannelOnly(id) == apiKeys

\* a cascade that compares the key's own id
deleteChannelKeysById(id) == SelectSeq(apiKeys, LAMBDA k : k.id # id)

\* a deleteProxy that clears every channel's proxyId
deleteProxyClearAll(id) ==
  [i \in 1..Len(channels) |-> [channels[i] EXCEPT !.proxyId = NoId]]

\* an addLog that pushes the row twice
addLogTwice(log) ==
  LET cutoff == now - MaxLogsRetention
  IN SelectSeq(Append(Append(logs, log), log), LAMBDA l : l.timestamp > cutoff)

\* a catch block that also marks the key invalid
relayErrorInvalid(key) == [errorCount |-> key.errorCount + 1, status |-> "invalid"]

\* a stats write that also classifies the key by the upstream status
relayStatsClassify(key, status) ==
  [totalRequests |-> key.totalRequests + 1,
   errorCount |-> IF status >= 200 /\ status <= 299 THEN 0 ELSE key.errorCount + 1,
   status |-> IF status >= 200 /\ status <= 299 THEN "active" ELSE "quota_exceeded"]

\* ------------------------------------------------------------------ store functions
getChannels == channels

hasChannel(id) == findIndex(channels, id) # 0
getChannelById(id) == channels[findIndex(channels, id)]

createChannel(channel) == Append(channels, channel)

updateChannel(id, updates) ==
  LET index == findIndex(channels, id)
  IN IF index = 0 THEN channels
     ELSE [channels EXCEPT ![index] = spread(channels[index], updates)]

\* deleteChannel: the channels array after the splice ...
deleteChannel(id) ==
  LET index == findIndex(channels, id)
  IN IF index = 0 THEN channels ELSE splice(channels, index)

\* ... and the apiKeys array after the cascade (untouched when the id is unknown)
deleteChannelKeys(id) ==
  IF findIndex(channels, id) = 0 THEN apiKeys
  ELSE SelectSeq(apiKeys, LAMBDA k : k.channelId # id)

getApiKeys == apiKeys

hasApiKey(id) == findIndex(apiKeys, id) # 0
getApiKeyById(id) == apiKeys[findIndex(apiKeys, id)]

getActiveKeysByChannel(channelId) ==
  SelectSeq(apiKeys, LAMBDA k : k.channelId = channelId /\ k.status = "active")

createApiKey(key) == Append(apiKeys, key)

createApiKeys(keys) == apiKeys \o keys

\* faulty variant: an update that stores what it was given when the id is unknown
updateApiKeyUpsert(id, updates) ==
  LET index == findIndex(apiKeys, id)
  IN IF index = 0
     THEN Append(apiKeys, spread([id |-> id, channelId |-> NoId, status |-> "unknown", priority |-> 50,
                                  weight |-> 50, errorCount |-> 0, totalRequests |-> 0], updates))
     ELSE [apiKeys EXCEPT ![index] = spread(apiKeys[index], updates)]

updateApiKey(id, updates) ==
  LET index == findIndex(apiKeys, id)
  IN IF index = 0 THEN apiKeys
     ELSE [apiKeys EXCEPT ![index] = spread(apiKeys[index], updates)]

deleteApiKey(id) ==
  LET index == findIndex(apiKeys, id)
  IN IF index = 0 THEN apiKeys ELSE splice(apiKeys, index)

hasProxy(id) == findIndex(proxies, id) # 0
getProxyById(id) == proxies[findIndex(proxies, id)]

\* getAgent of keyChecker.ts and lines 124-129 of the relay: the id of the
\* proxy the request goes through, NoId for none (the default dialer).
getAgent(channel) ==
  IF channel.proxyId = NoId THEN NoId
  ELSE IF findIndex(proxies, channel.proxyId) = 0 \/ ~getProxyById(channel.proxyId).enabled THEN NoId
  ELSE channel.proxyId

createProxy(proxy) == Append(proxies, proxy)

updateProxy(id, updates) ==
  LET index == findIndex(proxies, id)
  IN IF index = 0 THEN proxies
     ELSE [proxies EXCEPT ![index] = spread(proxies[index], updates)]

\* deleteProxy: the proxies array after the splice ...
deleteProxy(id) ==
  LET index == findIndex(proxies, id)
  IN IF index = 0 THEN proxies ELSE splice(proxies, index)

\* ... and the channels array after the loop that clears the references
deleteProxyChannels(id) ==
  IF findIndex(proxies, id) = 0 THEN channels
  ELSE [i \in 1..Len(channels) |->
          IF channels[i].proxyId = id
          THEN [channels[i] EXCEPT !.proxyId = NoId]
          ELSE channels[i]]

\* addLog: push, then drop what is older than the retention
addLog(log) ==
  LET cutoff == now - MaxLogsRetention
  IN SelectSeq(Append(logs, log), LAMBDA l : l.timestamp > cutoff)

\* ------------------------------------------------------------------ load balancer
\* roundRobinIndex.get(channelId) || 0
cursor(channelId) ==
  IF channelId \in DOMAIN roundRobinIndex THEN roundRobinIndex[channelId] ELSE 0

\* faulty variant: one cursor shared by all channels
roundRobinSetShared(keys, channelId) ==
  [c \in DOMAIN roundRobinIndex \cup {channelId} |-> (cursor(channelId) + 1) % Len(keys)]

\* faulty variant: the first key of the highest priority, whatever its errorCount
prioritySelectFirstTop(keys) ==
  LET n == Len(keys)
      top == {i \in 1..n : \A j \in 1..n : keys[j].priority <= keys[i].priority}
  IN keys[CHOOSE i \in top : \A j \in top : i <= j]

\* faulty variant: a reduce that replaces on <=, keeping the last of the least
leastUsedSelectLast(keys) ==
  LET n == Len(keys)
      least == {i \in 1..n : \A j \in 1..n : keys[i].totalRequests <= keys[j].totalRequests}
  IN keys[CHOOSE i \in least : \A j \in least : j <= i]

\* roundRobinSelect: the key returned (arrays are 1-based here) ...
roundRobinSelect(keys, channelId) == keys[(cursor(channelId) % Len(keys)) + 1]

\* ... and the map after roundRobinIndex.set
roundRobinSet(keys, channelId) ==
  [c \in DOMAIN roundRobinIndex \cup {channelId} |->
     IF c = channelId THEN (cursor(channelId) + 1) % Len(keys) ELSE roundRobinIndex[c]]

RECURSIVE sumWeight(_)
sumWeight(keys) == IF keys = <<>> THEN 0 ELSE Head(keys).weight + sumWeight(Tail(keys))

\* weightedSelect draws Math.random(): the keys it can return.  With a zero
\* total any key; otherwise `random` in [0, total) runs out at a key of
\* positive weight, or at the first key when random = 0.
weightedSelect(keys) ==
  IF sumWeight(keys) = 0 THEN {keys[i] : i \in 1..Len(keys)}
  ELSE {keys[i] : i \in {j \in 1..Len(keys) : keys[j].weight > 0 \/ j = 1}}

\* prioritySelect: the stable sort puts the highest priority first; the reduce
\* keeps the earliest of the top keys with the least errorCount.
prioritySelect(keys) ==
  LET n == Len(keys)
      highestPriority == CHOOSE p \in {keys[i].priority : i \in 1..n} :
                           \A i \in 1..n : keys[i].priority <= p
      top == {i \in 1..n : keys[i].priority = highestPriority}
      best == CHOOSE i \in top :
                /\ \A j \in top : keys[i].errorCount <= keys[j].errorCount
                /\ \A j \in top : j < i => keys[j].errorCount > keys[i].errorCount
  IN keys[best]

\* leastUsedSelect: the reduce keeps the earliest key with the least totalRequests.
leastUsedSelect(keys) ==
  LET n == Len(keys)
      least == CHOOSE i \in 1..n :
                 /\ \A j \in 1..n : keys[i].totalRequests <= keys[j].totalRequests
                 /\ \A j \in 1..n : j < i => keys[j].totalRequests > keys[i].totalRequests
  IN keys[least]

\* selectKey: the set of keys it can return; empty stands for null.
selectKey(keys, strategy, channelId) ==
  LET activeKeys == SelectSeq(keys, LAMBDA k : k.status = "active")
  IN IF Len(activeKeys) = 0 THEN {}
     ELSE CASE strategy = "round-robin" -> {roundRobinSelect(activeKeys, channelId)}
            [] strategy = "weighted" -> weightedSelect(activeKeys)
            [] strategy = "priority" -> {prioritySelect(activeKeys)}
            [] strategy = "least-used" -> {leastUsedSelect(activeKeys)}
            [] OTHER -> {roundRobinSelect(activeKeys, channelId)}

\* selectKey's write to roundRobinIndex.
selectKeyIndex(keys, strategy, channelId) ==
  LET activeKeys == SelectSeq(keys, LAMBDA k : k.status = "active")
  IN IF Len(activeKeys) = 0 \/ strategy \in {"weighted", "priority", "least-used"}
     THEN roundRobinIndex
     ELSE roundRobinSet(activeKeys, channelId)

\* ------------------------------------------------------------------ router
\* faulty variant: findChannelForModel without the filter on c.enabled
eligibleChannelsAnyState(model, allowedChannels) ==
  SelectSeq(getChannels,
            LAMBDA c : /\ c.type \in matchingTypes(model)
                       /\ (allowedChannels # {} => c.id \in allowedChannels))

\* findChannelForModel: the channels left after both filters, in store order
eligibleChannels(model, allowedChannels) ==
  SelectSeq(getChannels,
            LAMBDA c : /\ c.enabled
                       /\ c.type \in matchingTypes(model)
                       /\ (allowedChannels # {} => c.id \in allowedChannels))

\* faulty variant: the last channel with a key instead of the first
findChannelForModelLast(model, allowedChannels) ==
  LET el == eligibleChannels(model, allowedChannels)
      hit == {i \in 1..Len(el) :
                selectKey(getActiveKeysByChannel(el[i].id), el[i].loadBalanceStrategy, el[i].id) # {}}
  IN IF hit = {} THEN 0 ELSE CHOOSE i \in hit : \A j \in hit : i >= j

\* findChannelForModel: position in eligibleChannels of the first channel for
\* which selectKey returns a key; 0 stands for `return null`.
findChannelForModel(model, allowedChannels) ==
  LET el == eligibleChannels(model, allowedChannels)
      hit == {i \in 1..Len(el) :
                selectKey(getActiveKeysByChannel(el[i].id), el[i].loadBalanceStrategy, el[i].id) # {}}
  IN IF hit = {} THEN 0 ELSE CHOOSE i \in hit : \A j \in hit : i <= j

\* ------------------------------------------------------------------ initial state
\* defaultData, an empty roundRobinIndex map, nothing in flight.
Init ==
  /\ channels = <<>>
  /\ apiKeys = <<>>
  /\ proxies = <<>>
  /\ logs = <<>>
  /\ ids = [channel |-> 0, key |-> 0, proxy |-> 0, token |-> 0]
  /\ now = 0
  /\ roundRobinIndex = [c \in {} |-> 0]
  /\ relays = <<>>
  /\ probes = <<>>
  /\ jobs = <<>>
  /\ resp = 0
  /\ tokens = <<>>
  /\ requestCounts = [t \in {} |-> 0]
  /\ calls = <<>>
  /\ scheduledTask = TRUE

idsUsed == ids.channel + ids.key + ids.proxy
requestsStarted == Len(relays) + Len(probes) + Len(jobs)

\* Date.now() moves on by d ticks.
Tick(d) ==
  /\ now' = now + d
  /\ UNCHANGED <<channels, apiKeys, proxies, logs, ids, roundRobinIndex, relays, probes, jobs, resp, gateVars>>

\* ------------------------------------------------------------------ checkAll bookkeeping
\* runKeyCheck holds `allKeys`, the array object db.data.apiKeys was when the
\* job started.  push, splice and index assignment change that object in
\* place; deleteChannel assigns a new array to db.data.apiKeys and leaves the
\* job with the old one.  A job with live = TRUE still shares the store's
\* array; otherwise allKeys is the array it was left with.
detachJobs(id) ==
  IF findIndex(channels, id) = 0 THEN jobs
  ELSE [j \in 1..Len(jobs) |->
          IF jobs[j].pc # "done" /\ jobs[j].live
          THEN [jobs[j] EXCEPT !.live = FALSE, !.allKeys = apiKeys]
          ELSE jobs[j]]

\* ------------------------------------------------------------------ management API: channels
\* POST /api/channels
ChannelPost(type, proxyId, strategy, enabled) ==
  /\ channels' = createChannel([id |-> ids.channel + 1, type |-> type, proxyId |-> proxyId,
                                loadBalanceStrategy |-> strategy, enabled |-> enabled])
  /\ ids' = [ids EXCEPT !.channel = @ + 1]
  /\ resp' = 201
  /\ UNCHANGED <<apiKeys, proxies, logs, now, roundRobinIndex, relays, probes, jobs, gateVars>>

\* PUT /api/channels/:id
ChannelPut(id, data) ==
  /\ channels' = updateChannel(id, data)
  /\ resp' = IF hasChannel(id) THEN 200 ELSE 404
  /\ UNCHANGED <<apiKeys, proxies, logs, ids, now, roundRobinIndex, relays, probes, jobs, gateVars>>

\* DELETE /api/channels/:id
ChannelDelete(id) ==
  /\ channels' = deleteChannel(id)
  /\ apiKeys' = deleteChannelKeys(id)
  /\ jobs' = detachJobs(id)
  /\ resp' = IF hasChannel(id) THEN 200 ELSE 404
  /\ UNCHANGED <<proxies, logs, ids, now, roundRobinIndex, relays, probes, gateVars>>

\* ------------------------------------------------------------------ management API: keys
\* The ApiKey record both POST routes build.
newApiKey(id, channelId, priority, weight) ==
  [id |-> id, channelId |-> channelId, status |-> "unknown",
   priority |-> priority, weight |-> weight, errorCount |-> 0, totalRequests |-> 0]

\* POST /api/keys
KeyPost(channelId, priority, weight) ==
  /\ IF ~hasChannel(channelId)
     THEN /\ resp' = 400
          /\ UNCHANGED <<apiKeys, ids>>
     ELSE /\ apiKeys' = createApiKey(newApiKey(ids.key + 1, channelId, priority, weight))
          /\ ids' = [ids EXCEPT !.key = @ + 1]
          /\ resp' = 201
  /\ UNCHANGED <<channels, proxies, logs, now, roundRobinIndex, relays, probes, jobs, gateVars>>

\* POST /api/keys/import; n is the number of non-empty trimmed pieces of `keys`.
KeyImport(channelId, n) ==
  /\ IF ~hasChannel(channelId) \/ n = 0
     THEN /\ resp' = 400
          /\ UNCHANGED <<apiKeys, ids>>
     ELSE /\ apiKeys' = createApiKeys([i \in 1..n |-> newApiKey(ids.key + i, channelId, 50, 50)])
          /\ ids' = [ids EXCEPT !.key = @ + n]
          /\ resp' = 201
  /\ UNCHANGED <<channels, proxies, logs, now, roundRobinIndex, relays, probes, jobs, gateVars>>

\* PUT /api/keys/:id; data is what updateKeySchema lets through.
KeyPut(id, data) ==
  /\ apiKeys' = updateApiKey(id, data)
  /\ resp' = IF hasApiKey(id) THEN 200 ELSE 404
  /\ UNCHANGED <<channels, proxies, logs, ids, now, roundRobinIndex, relays, probes, jobs, gateVars>>

\* DELETE /api/keys/:id
KeyDelete(id) ==
  /\ apiKeys' = deleteApiKey(id)
  /\ resp' = IF hasApiKey(id) THEN 200 ELSE 404
  /\ UNCHANGED <<channels, proxies, logs, ids, now, roundRobinIndex, relays, probes, jobs, gateVars>>

\* ------------------------------------------------------------------ management API: proxies
\* POST /api/proxies
ProxyPost(enabled) ==
  /\ proxies' = createProxy([id |-> ids.proxy + 1, enabled |-> enabled])
  /\ ids' = [ids EXCEPT !.proxy = @ + 1]
  /\ resp' = 201
  /\ UNCHANGED <<channels, apiKeys, logs, now, roundRobinIndex, relays, probes, jobs, gateVars>>

\* PUT /api/proxies/:id
ProxyPut(id, data) ==
  /\ proxies' = updateProxy(id, data)
  /\ resp' = IF hasProxy(id) THEN 200 ELSE 404
  /\ UNCHANGED <<channels, apiKeys, logs, ids, now, roundRobinIndex, relays, probes, jobs, gateVars>>

\* DELETE /api/proxies/:id
ProxyDelete(id) ==
  /\ proxies' = deleteProxy(id)
  /\ channels' = deleteProxyChannels(id)
  /\ resp' = IF hasProxy(id) THEN 200 ELSE 404
  /\ UNCHANGED <<apiKeys, logs, ids, now, roundRobinIndex, relays, probes, jobs, gateVars>>

\* ------------------------------------------------------------------ POST /v1/chat/completions
\* A relay is at one of its awaits: "fetch" (line 139), "body" (the db.write
\* of the stats update, then response.json() or the reader loop), "catch"
\* (the db.write of the catch block's update), or it is "done".  `key` is the
\* object selectKey returned: updateApiKey replaces array elements by fresh
\* objects, so the relay keeps the field values of the moment of selection.
\* `rows` counts the relay's addLog calls; `req` in a log row names the relay
\* that built it.
NoKey == newApiKey(NoId, NoId, 0, 0)

\* faulty variant: a rejection that has written a log row
rejectedLogged(status) ==
  [pc |-> "done", channel |-> NoId, key |-> NoKey, streaming |-> FALSE,
   upstream |-> 0, logTs |-> 0, status |-> status, rows |-> 1, agent |-> NoId]

\* A request answered before any (channel, key) was selected.
rejected(status) ==
  [pc |-> "done", channel |-> NoId, key |-> NoKey, streaming |-> FALSE,
   upstream |-> 0, logTs |-> 0, status |-> status, rows |-> 0, agent |-> NoId]

\* response.ok
ok(status) == status >= 200 /\ status <= 299

\* Lines 82-139: up to the await of fetch.  An empty or missing model is 400,
\* no (channel, key) is 503.
RelayStart(model, allowedChannels, streaming) ==
  /\ IF model = <<>>
     THEN /\ relays' = Append(relays, rejected(400))
          /\ UNCHANGED roundRobinIndex
     ELSE LET el == eligibleChannels(model, allowedChannels)
              i == findChannelForModel(model, allowedChannels)
          IN IF i = 0
             THEN /\ relays' = Append(relays, rejected(503))
                  /\ UNCHANGED roundRobinIndex
             ELSE LET channel == el[i]
                      keys == getActiveKeysByChannel(channel.id)
                  IN /\ \E key \in selectKey(keys, channel.loadBalanceStrategy, channel.id) :
                          relays' = Append(relays,
                            [pc |-> "fetch", channel |-> channel.id, key |-> key,
                             streaming |-> streaming, upstream |-> 0, logTs |-> 0,
                             status |-> 0, rows |-> 0, agent |-> getAgent(channel)])
                     /\ roundRobinIndex' = selectKeyIndex(keys, channel.loadBalanceStrategy, channel.id)
  /\ UNCHANGED <<channels, apiKeys, proxies, logs, ids, now, probes, jobs, resp>>

\* Lines 139-162: fetch resolved with an upstream response; the log object is
\* built and the key's stats are written.
relayStats(key, status) ==
  [totalRequests |-> key.totalRequests + 1,
   errorCount |-> IF ok(status) THEN 0 ELSE key.errorCount + 1]

RelayResponse(r, status) ==
  /\ r \in 1..Len(relays)
  /\ relays[r].pc = "fetch"
  /\ apiKeys' = updateApiKey(relays[r].key.id, relayStats(relays[r].key, status))
  /\ relays' = [relays EXCEPT ![r].pc = "body", ![r].upstream = status, ![r].logTs = now]
  /\ UNCHANGED <<channels, proxies, logs, ids, now, roundRobinIndex, probes, jobs, resp, gateVars>>

\* Lines 194-201: the catch block's update of the key.
relayError(key) == [errorCount |-> key.errorCount + 1]

\* fetch rejected (transport failure): straight to the catch block.
RelayFetchThrows(r) ==
  /\ r \in 1..Len(relays)
  /\ relays[r].pc = "fetch"
  /\ apiKeys' = updateApiKey(relays[r].key.id, relayError(relays[r].key))
  /\ relays' = [relays EXCEPT ![r].pc = "catch"]
  /\ UNCHANGED <<channels, proxies, logs, ids, now, roundRobinIndex, probes, jobs, resp, gateVars>>

\* Lines 164-193: the body was streamed to its end, or parsed and mirrored;
\* the log built at line 143 is appended.
relayLog(r) ==
  [req |-> r, timestamp |-> relays[r].logTs, channelId |-> relays[r].channel,
   keyId |-> relays[r].key.id, status |-> relays[r].upstream,
   streaming |-> relays[r].streaming, error |-> ~ok(relays[r].upstream)]

RelayBody(r) ==
  /\ r \in 1..Len(relays)
  /\ relays[r].pc = "body"
  /\ logs' = addLog(relayLog(r))
  /\ relays' = [relays EXCEPT ![r].pc = "done", ![r].status = relays[r].upstream,
                              ![r].rows = @ + 1]
  /\ UNCHANGED <<channels, apiKeys, proxies, ids, now, roundRobinIndex, probes, jobs, resp, gateVars>>

\* response.json() rejected (the body is no JSON) or the reader loop threw:
\* the catch block runs after the stats were written.
RelayBodyThrows(r) ==
  /\ r \in 1..Len(relays)
  /\ relays[r].pc = "body"
  /\ apiKeys' = updateApiKey(relays[r].key.id, relayError(relays[r].key))
  /\ relays' = [relays EXCEPT ![r].pc = "catch"]
  /\ UNCHANGED <<channels, proxies, logs, ids, now, roundRobinIndex, probes, jobs, resp, gateVars>>

\* Lines 203-221: the catch block's log and its 500.
relayFailureLog(r) ==
  [req |-> r, timestamp |-> now, channelId |-> relays[r].channel,
   keyId |-> relays[r].key.id, status |-> 500,
   streaming |-> relays[r].streaming, error |-> TRUE]

RelayCatch(r) ==
  /\ r \in 1..Len(relays)
  /\ relays[r].pc = "catch"
  /\ logs' = addLog(relayFailureLog(r))
  /\ relays' = [relays EXCEPT ![r].pc = "done", ![r].status = 500, ![r].rows = @ + 1]
  /\ UNCHANGED <<channels, apiKeys, proxies, ids, now, roundRobinIndex, probes, jobs, resp, gateVars>>

\* ------------------------------------------------------------------ scheduler
\* What both checkSingleKey and runKeyCheck write after a probe.
probeUpdate(key, status) ==
  [status |-> status,
   errorCount |-> IF status = "active" THEN 0 ELSE key.errorCount + 1]

\* What checkKey can report.
ProbeStatus == {"active", "invalid", "quota_exceeded"}

\* POST /api/keys/:id/check, up to the await of checkKey.  checkSingleKey
\* throws for an unknown key or channel, and the route answers 400.
ProbeStart(keyId) ==
  /\ IF ~hasApiKey(keyId) \/ ~hasChannel(getApiKeyById(keyId).channelId)
     THEN /\ resp' = 400
          /\ UNCHANGED probes
     ELSE /\ probes' = Append(probes,
                            [pc |-> "probing", key |-> getApiKeyById(keyId),
                             agent |-> getAgent(getChannelById(getApiKeyById(keyId).channelId))])
          /\ UNCHANGED resp
  /\ UNCHANGED <<channels, apiKeys, proxies, logs, ids, now, roundRobinIndex, relays, jobs, gateVars>>

\* checkKey resolved: the result is written and the route answers.
ProbeResult(p, status) ==
  /\ p \in 1..Len(probes)
  /\ probes[p].pc = "probing"
  /\ apiKeys' = updateApiKey(probes[p].key.id, probeUpdate(probes[p].key, status))
  /\ probes' = [probes EXCEPT ![p] = [pc |-> "done", key |-> NoKey]]
  /\ resp' = 200
  /\ UNCHANGED <<channels, proxies, logs, ids, now, roundRobinIndex, relays, jobs, gateVars>>

\* runKeyCheck's loops from a channel list on: the first channel with a
\* non-disabled key in `allKeys`, with those keys; no await lies between.
RECURSIVE nextChannel(_, _)
nextChannel(chans, allKeys) ==
  IF chans = <<>> THEN [chans |-> <<>>, channelKeys |-> <<>>]
  ELSE LET channelKeys == SelectSeq(allKeys,
                            LAMBDA k : k.channelId = Head(chans).id /\ k.status # "disabled")
       IN IF channelKeys # <<>>
          THEN [chans |-> chans, channelKeys |-> channelKeys]
          ELSE nextChannel(Tail(chans), allKeys)

jobDone ==
  [pc |-> "done", chans |-> <<>>, channelKeys |-> <<>>, live |-> FALSE, allKeys |-> <<>>,
   agent |-> NoId]

jobAt(nx, live, allKeys) ==
  IF nx.chans = <<>> THEN jobDone
  ELSE [pc |-> "probing", chans |-> nx.chans, channelKeys |-> nx.channelKeys,
        live |-> live, allKeys |-> allKeys, agent |-> getAgent(Head(nx.chans))]

\* getChannels().filter((c) => c.enabled): the channel objects of the moment,
\* which the job keeps while updateChannel stores fresh ones.
enabledChannels == SelectSeq(getChannels, LAMBDA c : c.enabled)

\* runKeyCheck up to its first await; viaApi: POST /api/keys/check-all (which
\* answers at once), else the cron trigger.
JobStart(viaApi) ==
  /\ viaApi \/ scheduledTask
  /\ jobs' = Append(jobs, jobAt(nextChannel(enabledChannels, getApiKeys), TRUE, <<>>))
  /\ resp' = IF viaApi THEN 200 ELSE resp
  /\ UNCHANGED <<channels, apiKeys, proxies, logs, ids, now, roundRobinIndex, relays, probes, gateVars>>

\* checkKey resolved inside the job: the result is written, then the job
\* waits for db.write and the 500 ms timer.
JobResult(j, status) ==
  /\ j \in 1..Len(jobs)
  /\ jobs[j].pc = "probing"
  /\ apiKeys' = updateApiKey(Head(jobs[j].channelKeys).id,
                             probeUpdate(Head(jobs[j].channelKeys), status))
  /\ jobs' = [jobs EXCEPT ![j].pc = "paused"]
  /\ UNCHANGED <<channels, proxies, logs, ids, now, roundRobinIndex, relays, probes, resp, gateVars>>

\* The timer fired: the next key of the channel, else the next channel.
JobResume(j) ==
  /\ j \in 1..Len(jobs)
  /\ jobs[j].pc = "paused"
  /\ LET rest == Tail(jobs[j].channelKeys)
         allKeys == IF jobs[j].live THEN getApiKeys ELSE jobs[j].allKeys
     IN jobs' = [jobs EXCEPT ![j] =
                   IF rest # <<>>
                   THEN [jobs[j] EXCEPT !.pc = "probing", !.channelKeys = rest,
                                        !.agent = getAgent(Head(jobs[j].chans))]
                   ELSE jobAt(nextChannel(Tail(jobs[j].chans), allKeys),
                              jobs[j].live, jobs[j].allKeys)]
  /\ UNCHANGED <<channels, apiKeys, proxies, logs, ids, now, roundRobinIndex, relays, probes, resp, gateVars>>

\* ------------------------------------------------------------------ inputs
\* Ids a caller can send: those handed out so far (stored or deleted) and one
\* that never existed.
ChannelIdInputs == 1..ids.channel \cup {BogusId}
KeyIdInputs == 1..ids.key \cup {BogusId}
ProxyIdInputs == 1..ids.proxy \cup {BogusId}

LoadBalanceStrategy == {"round-robin", "weighted", "priority", "least-used"}
ChannelPutInputs == {[proxyId |-> p] : p \in ProxyIdInputs}
KeyPutInputs == {[status |-> "active"], [status |-> "disabled"]}
ModelInputs == {gpt4, <<>>}
UpstreamStatus == {200, 429}

\* ------------------------------------------------------------------ the management API alone
StoreNext ==
  \/ /\ idsUsed < MaxIds
     /\ \E p \in ProxyIdInputs \cup {NoId} : ChannelPost("openai", p, "round-robin", TRUE)
  \/ \E id \in ChannelIdInputs, data \in ChannelPutInputs : ChannelPut(id, data)
  \/ \E id \in ChannelIdInputs : ChannelDelete(id)
  \/ /\ idsUsed < MaxIds
     /\ \E c \in ChannelIdInputs : KeyPost(c, 50, 50)
  \/ \E c \in ChannelIdInputs, n \in 0..2 : idsUsed + n <= MaxIds /\ KeyImport(c, n)
  \/ \E id \in KeyIdInputs : KeyPut(id, [status |-> "disabled"])
  \/ \E id \in KeyIdInputs : KeyDelete(id)
  \/ /\ idsUsed < MaxIds
     /\ ProxyPost(TRUE)
  \/ \E id \in ProxyIdInputs : ProxyPut(id, [enabled |-> FALSE])
  \/ \E id \in ProxyIdInputs : ProxyDelete(id)

SpecStore == Init /\ [][StoreNext]_vars

\* ------------------------------------------------------------------ relays and probes on a loaded store
\* db.json as an earlier run left it: one enabled openai channel with two
\* active keys, under each strategy.
InitRelay ==
  /\ \E s \in LoadBalanceStrategy :
       channels = << [id |-> 1, type |-> "openai", proxyId |-> NoId,
                      loadBalanceStrategy |-> s, enabled |-> TRUE] >>
  /\ apiKeys = << [newApiKey(1, 1, 50, 50) EXCEPT !.status = "active"],
                  [newApiKey(2, 1, 50, 50) EXCEPT !.status = "active"] >>
  /\ proxies = <<>>
  /\ logs = <<>>
  /\ ids = [channel |-> 1, key |-> 2, proxy |-> 0, token |-> 0]
  /\ now = 0
  /\ roundRobinIndex = [c \in {} |-> 0]
  /\ relays = <<>>
  /\ probes = <<>>
  /\ jobs = <<>>
  /\ resp = 0
  /\ tokens = <<>>
  /\ requestCounts = [t \in {} |-> 0]
  /\ calls = <<>>
  /\ scheduledTask = TRUE

RelayNext ==
  \/ /\ requestsStarted < MaxRequests
     /\ \E m \in ModelInputs : RelayStart(m, {}, FALSE) /\ UNCHANGED gateVars
  \/ \E r \in 1..Len(relays), status \in UpstreamStatus : RelayResponse(r, status)
  \/ \E r \in 1..Len(relays) : RelayFetchThrows(r)
  \/ \E r \in 1..Len(relays) : RelayBody(r)
  \/ \E r \in 1..Len(relays) : RelayBodyThrows(r)
  \/ \E r \in 1..Len(relays) : RelayCatch(r)
  \/ /\ requestsStarted < MaxRequests
     /\ \E id \in KeyIdInputs : ProbeStart(id)
  \/ \E p \in 1..Len(probes), status \in ProbeStatus : ProbeResult(p, status)

SpecRelay == InitRelay /\ [][RelayNext]_vars

\* ------------------------------------------------------------------ relays while the clock runs
\* The clock moves on by a little more than half the retention at a time.
LogTick == (MaxLogsRetention \div 2) + 1

LogNext ==
  \/ /\ Len(relays) < MaxLogRelays
     /\ \E m \in ModelInputs, s \in BOOLEAN : RelayStart(m, {}, s) /\ UNCHANGED gateVars
  \/ \E r \in 1..Len(relays), status \in UpstreamStatus : RelayResponse(r, status)
  \/ \E r \in 1..Len(relays) : RelayFetchThrows(r)
  \/ \E r \in 1..Len(relays) : RelayBody(r)
  \/ \E r \in 1..Len(relays) : RelayBodyThrows(r)
  \/ \E r \in 1..Len(relays) : RelayCatch(r)
  \/ /\ now < MaxTime * LogTick
     /\ Tick(LogTick)

SpecLog == InitRelay /\ [][LogNext]_vars

\* ------------------------------------------------------------------ keys and channels under traffic
KeysNext ==
  \/ /\ idsUsed + requestsStarted < MaxKeyOps
     /\ ChannelPost("openai", NoId, "round-robin", TRUE)
  \/ \E id \in ChannelIdInputs, e \in BOOLEAN : ChannelPut(id, [enabled |-> e])
  \/ \E id \in ChannelIdInputs : ChannelDelete(id)
  \/ /\ idsUsed + requestsStarted < MaxKeyOps
     /\ \E c \in ChannelIdInputs : KeyPost(c, 50, 50)
  \/ \E c \in ChannelIdInputs, n \in 0..2 : idsUsed + requestsStarted + n <= MaxKeyOps /\ KeyImport(c, n)
  \/ \E id \in KeyIdInputs, data \in KeyPutInputs : KeyPut(id, data)
  \/ \E id \in KeyIdInputs : KeyDelete(id)
  \/ /\ idsUsed + requestsStarted < MaxKeyOps
     /\ \E m \in ModelInputs : RelayStart(m, {}, FALSE) /\ UNCHANGED gateVars
  \/ \E r \in 1..Len(relays), status \in UpstreamStatus : RelayResponse(r, status)
  \/ \E r \in 1..Len(relays) : RelayFetchThrows(r)
  \/ \E r \in 1..Len(relays) : RelayBody(r)
  \/ \E r \in 1..Len(relays) : RelayBodyThrows(r)
  \/ \E r \in 1..Len(relays) : RelayCatch(r)
  \/ /\ idsUsed + requestsStarted < MaxKeyOps
     /\ \E id \in KeyIdInputs : ProbeStart(id)
  \/ \E p \in 1..Len(probes), status \in ProbeStatus : ProbeResult(p, status)
  \/ /\ idsUsed + requestsStarted < MaxKeyOps
     /\ \E viaApi \in BOOLEAN : JobStart(viaApi)
  \/ \E j \in 1..Len(jobs), status \in ProbeStatus : JobResult(j, status)
  \/ \E j \in 1..Len(jobs) : JobResume(j)

SpecKeys == Init /\ [][KeysNext]_vars

\* ------------------------------------------------------------------ the whole system
Next == StoreNext \/ KeysNext \/ RelayNext \/ LogNext

Spec == Init /\ [][Next]_vars

\* ------------------------------------------------------------------ properties
\* C1: at every moment every stored key's channelId is the id of a stored
\* channel, whatever management calls, relays, probes and checkAll jobs
\* interleave; and POST /api/keys or /api/keys/import for a channelId that
\* names no stored channel answers 400 and leaves the keys as they were.
KeysHaveChannels == \A i \in 1..Len(apiKeys) : hasChannel(apiKeys[i].channelId)

UnknownChannelRejected ==
  \A c \in ChannelIdInputs :
    (~hasChannel(c) /\ (KeyPost(c, 50, 50) \/ \E n \in 0..2 : KeyImport(c, n)))
      => (resp' = 400 /\ apiKeys' = apiKeys)

C1_KeysReferToChannels == [](KeysHaveChannels) /\ [][UnknownChannelRejected]_vars

\* A relay finished after its channel, and with it its key, was deleted, and
\* a key creation for a missing channel was just refused.
C1_Witness ==
  /\ resp = 400
  /\ \E r \in 1..Len(relays) :
       /\ relays[r].pc = "done"
       /\ relays[r].channel # NoId
       /\ ~hasChannel(relays[r].channel)
       /\ ~hasApiKey(relays[r].key.id)

\* C2: DELETE of a stored channel removes, in the one step, that channel and
\* exactly the keys whose channelId is its id: afterwards the channel is gone,
\* none of its keys is left, the other channels and the keys of the other
\* channels are what and where they were.
ChannelDeleteCascades ==
  \A id \in ChannelIdInputs :
    (hasChannel(id) /\ ChannelDelete(id)) =>
      /\ \A i \in 1..Len(channels') : channels'[i].id # id
      /\ channels' = SelectSeq(channels, LAMBDA c : c.id # id)
      /\ \A i \in 1..Len(apiKeys') : apiKeys'[i].channelId # id
      /\ apiKeys' = SelectSeq(apiKeys, LAMBDA k : k.channelId # id)

C2_DeleteChannelAtomic == [][ChannelDeleteCascades]_vars

\* Channel 1 was created with a key and is gone with it; channel 2 and its key
\* are still stored.
C2_Witness ==
  /\ resp = 200
  /\ ~hasChannel(1)
  /\ \E k \in 1..ids.key : ~hasApiKey(k)
  /\ hasChannel(2)
  /\ \E i \in 1..Len(apiKeys) : apiKeys[i].channelId = 2

\* C3: DELETE of a stored proxy removes it and, in the same step, clears
\* proxyId on every channel that referred to it; every other channel keeps
\* its proxyId, and nothing else of any channel changes.
ProxyDeleteClears ==
  \A id \in ProxyIdInputs :
    (hasProxy(id) /\ ProxyDelete(id)) =>
      /\ proxies' = SelectSeq(proxies, LAMBDA p : p.id # id)
      /\ Len(channels') = Len(channels)
      /\ \A i \in 1..Len(channels) :
           /\ channels[i].proxyId = id => channels'[i] = [channels[i] EXCEPT !.proxyId = NoId]
           /\ channels[i].proxyId # id => channels'[i] = channels[i]

C3_DeleteProxyClears == [][ProxyDeleteClears]_vars

\* Proxy 1 is gone; one channel has no proxyId, another still refers to the
\* stored proxy it referred to before.
C3_Witness ==
  /\ resp = 200
  /\ ids.proxy >= 1
  /\ ~hasProxy(1)
  /\ \E i, j \in 1..Len(channels) :
       /\ channels[i].proxyId = NoId
       /\ channels[j].proxyId # NoId
       /\ hasProxy(channels[j].proxyId)

\* C4: every channel whose proxyId is set names a stored proxy.
C4_NoDanglingProxyId ==
  \A i \in 1..Len(channels) :
    channels[i].proxyId # NoId => hasProxy(channels[i].proxyId)

\* The relays that selected key `id` and received an upstream response.
responded(id) ==
  {r \in 1..Len(relays) : relays[r].key.id = id /\ relays[r].upstream # 0}

\* C5: once every relay that received an upstream response has completed, each
\* key's totalRequests is its initial value (0 for the keys of the loaded
\* store) plus the number of those relays that had selected it.
C5_EachCompletionCounted ==
  (\A r \in 1..Len(relays) : relays[r].pc = "done") =>
    \A i \in 1..Len(apiKeys) :
      apiKeys[i].totalRequests = Cardinality(responded(apiKeys[i].id))

\* C6: from one state to the next no stored key's totalRequests decreases.
TotalRequestsGrows ==
  \A i \in 1..Len(apiKeys) :
    \A j \in 1..Len(apiKeys') :
      apiKeys'[j].id = apiKeys[i].id =>
        apiKeys'[j].totalRequests >= apiKeys[i].totalRequests

C6_TotalRequestsMonotonic == [][TotalRequestsGrows]_vars

\* C7: the step that commits a relay's bookkeeping leaves the selected key's
\* stored errorCount no greater than before when the upstream answered 2xx,
\* and strictly greater when it answered non-2xx or the transport failed.
ErrorCountFollowsOutcome ==
  \A r \in 1..Len(relays) :
    LET i == findIndex(apiKeys, relays[r].key.id)
    IN i # 0 =>
         /\ \A status \in UpstreamStatus :
              RelayResponse(r, status) =>
                IF ok(status)
                THEN apiKeys'[i].errorCount <= apiKeys[i].errorCount
                ELSE apiKeys'[i].errorCount > apiKeys[i].errorCount
         /\ RelayFetchThrows(r) => apiKeys'[i].errorCount > apiKeys[i].errorCount

C7_ErrorCountPerOutcome == [][ErrorCountFollowsOutcome]_vars

\* The positions of the rows of `lg` that relay r built.
rowsOf(lg, r) == {i \in 1..Len(lg) : lg[i].req = r}

\* C8: a request that selected a (channel, key) has no RequestLog row while
\* it runs and, once it has ended, has had exactly one addLog call made for
\* it; the store never holds two rows of one request, and a row carries the
\* request's channelId and keyId.  A request rejected before selection (400,
\* 503) has none.  The step that ends the request leaves its one row in the
\* log, for every outcome: 2xx, non-2xx, stream, unparseable body, transport
\* failure (addLog's retention filter spares a row only while its timestamp
\* is younger than maxLogsRetention, so the row of a response that took that
\* long to finish is purged by the call that appends it).
OneRowPerRelay ==
  \A r \in 1..Len(relays) :
    /\ relays[r].rows = (IF relays[r].pc = "done" /\ relays[r].channel # NoId THEN 1 ELSE 0)
    /\ Cardinality(rowsOf(logs, r)) <= relays[r].rows
    /\ \A i \in rowsOf(logs, r) :
         /\ logs[i].channelId = relays[r].channel
         /\ logs[i].keyId = relays[r].key.id

RelayEndLogs ==
  \A r \in 1..Len(relays) :
    (RelayBody(r) \/ RelayCatch(r)) =>
      /\ relays'[r].pc = "done"
      /\ rowsOf(logs, r) = {}
      /\ \/ Cardinality(rowsOf(logs', r)) = 1
         \/ RelayBody(r) /\ relays[r].logTs + MaxLogsRetention <= now

statusChanged ==
  {id \in KeyIdInputs :
     /\ findIndex(apiKeys, id) # 0
     /\ findIndex(apiKeys', id) # 0
     /\ apiKeys'[findIndex(apiKeys', id)].status # apiKeys[findIndex(apiKeys, id)].status}

probeWrite ==
  \/ \E p \in 1..Len(probes), status \in ProbeStatus : ProbeResult(p, status)
  \/ \E j \in 1..Len(jobs), status \in ProbeStatus : JobResult(j, status)

\* C9 as the specification states it: a step that changes the status of a
\* stored key is the write of a probe result (checkOne or checkAll).
C9_OnlyProbesWriteStatus == [][statusChanged # {} => probeWrite]_vars

\* C9: a step that changes the status of a stored key is the write of a probe
\* result or a PUT /api/keys/:id of that key whose body carries a status.
C9_OnlyProbesAndPutWriteStatus ==
  [][\A id \in statusChanged :
       \/ probeWrite
       \/ \E data \in KeyPutInputs : KeyPut(id, data) /\ "status" \in DOMAIN data]_vars

\* A key was probed and then disabled through the management API.
C9_Witness ==
  /\ resp = 200
  /\ \E p \in 1..Len(probes) : probes[p].pc = "done"
  /\ \E i \in 1..Len(apiKeys) : apiKeys[i].status = "disabled" /\ apiKeys[i].errorCount > 0

\* C10: a step of a relay (selection, the stats write, the catch block's
\* write, the log append) changes the status of no stored key.
relayStep ==
  \/ \E m \in ModelInputs, s \in BOOLEAN : RelayStart(m, {}, s)
  \/ \E r \in 1..Len(relays) :
       \/ \E status \in UpstreamStatus : RelayResponse(r, status)
       \/ RelayFetchThrows(r)
       \/ RelayBody(r)
       \/ RelayBodyThrows(r)
       \/ RelayCatch(r)

C10_RelayKeepsStatus == [][relayStep => statusChanged = {}]_vars

\* A relay answered 429 has written the counters of its key, which is still
\* stored and still "active".
C10_Witness ==
  \E r \in 1..Len(relays) :
    /\ relays[r].pc = "done"
    /\ relays[r].upstream = 429
    /\ hasApiKey(relays[r].key.id)
    /\ getApiKeyById(relays[r].key.id).status = "active"
    /\ getApiKeyById(relays[r].key.id).errorCount = 1
    /\ getApiKeyById(relays[r].key.id).totalRequests = 1

\* ------------------------------------------------------------------ tokens
\* How many tokens a run of SpecGate creates.
MaxTokens == 2
\* How many /v1 requests a run of SpecGate sends.
MaxCalls == 3

\* windowMs (60000 ms), in ticks of 30000 ms.
windowMs == 2

\* 'Bearer ' and headers of other shapes
Bearer == <<"B", "e", "a", "r", "e", "r", " ">>
bearerLower == <<"b", "e", "a", "r", "e", "r", " ">>
Basic == <<"B", "a", "s", "i", "c", " ">>

\* generateToken: 'kh-' and hex digits; the n-th token's value ends in the n-th digit.
hexDigits == <<"1", "2", "3", "4", "5", "6", "7", "8", "9", "a", "b", "c", "d", "e", "f">>
\* 'kh-' + crypto.randomBytes(24).toString('hex'): 48 hex digits, here the
\* n-th digit repeated, so that the n-th token has a value of its own.
generateToken(n) == <<"k", "h", "-">> \o [i \in 1..48 |-> hexDigits[n]]
\* a value no token has
unknownValue == <<"k", "h", "-">> \o [i \in 1..48 |-> "0"]

\* a limiter that rejects the L-th request already
overLimitOffByOne(record, token) == record.count >= token.rateLimit

\* a limiter that skips every token
limitedNever(token) == FALSE

\* an authMiddleware that lets a disabled token through
authMiddlewareNoEnabledCheck(header) ==
  IF header = <<>> \/ ~startsWith(header, Bearer) THEN [status |-> 401, token |-> 0]
  ELSE LET hit == {i \in 1..Len(tokens) : tokens[i].token = SubSeq(header, 8, Len(header))}
       IN IF hit = {} THEN [status |-> 401, token |-> 0]
          ELSE [status |-> 0, token |-> CHOOSE i \in hit : \A j \in hit : i <= j]

hasToken(id) == findIndex(tokens, id) # 0
getTokenById(id) == tokens[findIndex(tokens, id)]

\* getTokenByValue: position of the first token with that value; 0 stands for undefined
getTokenByValue(token) ==
  LET hit == {i \in 1..Len(tokens) : tokens[i].token = token}
  IN IF hit = {} THEN 0 ELSE CHOOSE i \in hit : \A j \in hit : i <= j

createToken(token) == Append(tokens, token)

updateToken(id, updates) ==
  LET index == findIndex(tokens, id)
  IN IF index = 0 THEN tokens
     ELSE [tokens EXCEPT ![index] = spread(tokens[index], updates)]

deleteToken(id) ==
  LET index == findIndex(tokens, id)
  IN IF index = 0 THEN tokens ELSE splice(tokens, index)

\* ------------------------------------------------------------------ middleware
\* authMiddleware: the status it answers with (0: it called next()) and the
\* position of the token it attached.
authMiddleware(header) ==
  IF header = <<>> \/ ~startsWith(header, Bearer) THEN [status |-> 401, token |-> 0]
  ELSE LET tokenValue == SubSeq(header, 8, Len(header))
           token == getTokenByValue(tokenValue)
       IN IF token = 0 THEN [status |-> 401, token |-> 0]
          ELSE IF ~tokens[token].enabled THEN [status |-> 403, token |-> 0]
          ELSE [status |-> 0, token |-> token]

\* !(!token.rateLimit): undefined and 0 are both falsy
limited(token) == "rateLimit" \in DOMAIN token /\ token.rateLimit # 0

\* the record the limiter works on: a fresh one when there is none or its window is over
currentRecord(token) ==
  IF token.id \notin DOMAIN requestCounts \/ now >= requestCounts[token.id].resetAt
  THEN [count |-> 0, resetAt |-> now + windowMs]
  ELSE requestCounts[token.id]

\* record.count++
countedRecord(token) == [currentRecord(token) EXCEPT !.count = @ + 1]

\* record.count > token.rateLimit
overLimit(record, token) == record.count > token.rateLimit

\* faulty variant: a limiter that answers 403 when the limit is passed
rateLimitMiddlewareForbids(token) ==
  IF ~limited(token) THEN [requestCounts |-> requestCounts, status |-> 0]
  ELSE [requestCounts |->
          [t \in DOMAIN requestCounts \cup {token.id} |->
             IF t = token.id THEN countedRecord(token) ELSE requestCounts[t]],
        status |-> IF overLimit(countedRecord(token), token) THEN 403 ELSE 0]

\* rateLimitMiddleware: the map after it ran, and whether it answers 429
rateLimitMiddleware(token) ==
  IF ~limited(token) THEN [requestCounts |-> requestCounts, status |-> 0]
  ELSE [requestCounts |->
          [t \in DOMAIN requestCounts \cup {token.id} |->
             IF t = token.id THEN countedRecord(token) ELSE requestCounts[t]],
        status |-> IF overLimit(countedRecord(token), token) THEN 429 ELSE 0]

\* ------------------------------------------------------------------ management API: tokens
\* POST /api/tokens; `limit` is what the body's rateLimit adds to the token: a
\* record with the field, or the empty record when the body has none.
TokenPost(allowedChannels, limit, enabled) ==
  /\ tokens' = createToken(spread([id |-> ids.token + 1, token |-> generateToken(ids.token + 1),
                                   allowedChannels |-> allowedChannels, enabled |-> enabled],
                                  limit))
  /\ ids' = [ids EXCEPT !.token = @ + 1]
  /\ resp' = 201
  /\ UNCHANGED <<channels, apiKeys, proxies, logs, now, roundRobinIndex, relays, probes, jobs,
                 requestCounts, calls, scheduledTask>>

\* PUT /api/tokens/:id
TokenPut(id, data) ==
  /\ tokens' = updateToken(id, data)
  /\ resp' = IF hasToken(id) THEN 200 ELSE 404
  /\ UNCHANGED <<channels, apiKeys, proxies, logs, ids, now, roundRobinIndex, relays, probes, jobs,
                 requestCounts, calls, scheduledTask>>

\* DELETE /api/tokens/:id
TokenDelete(id) ==
  /\ tokens' = deleteToken(id)
  /\ resp' = IF hasToken(id) THEN 200 ELSE 404
  /\ UNCHANGED <<channels, apiKeys, proxies, logs, ids, now, roundRobinIndex, relays, probes, jobs,
                 requestCounts, calls, scheduledTask>>

\* ------------------------------------------------------------------ /v1/chat/completions behind its middleware
\* What one request met: req.tokenInfo (the token object authMiddleware
\* attached; the empty record when it attached none), req.body.model, the time, the status a
\* middleware answered with (0: both called next()), whether the limiter
\* counted it, and which relay the handler started for it (0: the handler did
\* not run).
call(tokenInfo, model, status, counted, relay) ==
  [tokenInfo |-> tokenInfo, model |-> model, at |-> now, status |-> status, counted |-> counted,
   relay |-> relay]

\* router.use(authMiddleware), router.use(rateLimitMiddleware), then the
\* handler up to its first await: one synchronous chain of next() calls.
ChatCompletions(header, model, streaming) ==
  /\ UNCHANGED scheduledTask
  /\ LET auth == authMiddleware(header)
     IN IF auth.status # 0
        THEN /\ calls' = Append(calls, call(<<>>, model, auth.status, FALSE, 0))
             /\ UNCHANGED <<channels, apiKeys, proxies, logs, ids, now, roundRobinIndex, relays,
                            probes, jobs, resp, tokens, requestCounts>>
        ELSE LET token == tokens[auth.token]
                 limit == rateLimitMiddleware(token)
             IN /\ tokens' = updateToken(token.id, [lastUsed |-> now])
                /\ requestCounts' = limit.requestCounts
                /\ IF limit.status # 0
                   THEN /\ calls' = Append(calls, call(token, model, limit.status, TRUE, 0))
                        /\ UNCHANGED <<channels, apiKeys, proxies, logs, ids, now, roundRobinIndex,
                                       relays, probes, jobs, resp>>
                   ELSE /\ calls' = Append(calls, call(token, model, 0, limited(token), Len(relays) + 1))
                        /\ RelayStart(model, token.allowedChannels, streaming)

\* ------------------------------------------------------------------ tokens and the gate
\* Authorization headers a caller can send: none, another scheme, a wrong
\* case, an unknown value, and the value of each token created so far.
HeaderInputs ==
  {<<>>, Basic \o generateToken(1), bearerLower \o generateToken(1), Bearer \o unknownValue}
    \cup {Bearer \o generateToken(n) : n \in 1..ids.token}

TokenIdInputs == 1..ids.token \cup {BogusId}

\* rateLimit as createTokenSchema accepts it: absent, or an integer >= 0
RateLimitInputs == {<<>>, [rateLimit |-> 0], [rateLimit |-> 1], [rateLimit |-> 2]}

\* db.json as an earlier run left it: one enabled openai channel with two active keys.
InitGate ==
  /\ channels = << [id |-> 1, type |-> "openai", proxyId |-> NoId,
                    loadBalanceStrategy |-> "round-robin", enabled |-> TRUE] >>
  /\ apiKeys = << [newApiKey(1, 1, 50, 50) EXCEPT !.status = "active"],
                  [newApiKey(2, 1, 50, 50) EXCEPT !.status = "active"] >>
  /\ proxies = <<>>
  /\ logs = <<>>
  /\ ids = [channel |-> 1, key |-> 2, proxy |-> 0, token |-> 0]
  /\ now = 0
  /\ roundRobinIndex = [c \in {} |-> 0]
  /\ relays = <<>>
  /\ probes = <<>>
  /\ jobs = <<>>
  /\ resp = 0
  /\ tokens = <<>>
  /\ requestCounts = [t \in {} |-> 0]
  /\ calls = <<>>
  /\ scheduledTask = TRUE

\* Tokens come and go and callers send every kind of header.
GateNext ==
  \/ /\ ids.token < MaxTokens
     /\ \E enabled \in BOOLEAN : TokenPost({}, [rateLimit |-> 1], enabled)
  \/ \E id \in TokenIdInputs, enabled \in BOOLEAN : TokenPut(id, [enabled |-> enabled])
  \/ \E id \in TokenIdInputs : TokenDelete(id)
  \/ /\ Len(calls) < MaxCalls
     /\ \E header \in HeaderInputs : ChatCompletions(header, gpt4, FALSE)

SpecGate == InitGate /\ [][GateNext]_vars

\* Enabled tokens with and without a rateLimit send requests while the clock runs.
LimitNext ==
  \/ /\ ids.token < MaxTokens
     /\ \E limit \in RateLimitInputs : TokenPost({}, limit, TRUE)
  \/ /\ Len(calls) < MaxCalls
     /\ \E n \in 1..ids.token : ChatCompletions(Bearer \o generateToken(n), gpt4, FALSE)
  \/ /\ now < MaxTime
     /\ Tick(1)

SpecLimit == InitGate /\ [][LimitNext]_vars

\* ------------------------------------------------------------------ properties of the gate
\* The requests of token t that the limiter counted, as positions in calls.
countedCalls(t) ==
  {i \in 1..Len(calls) : calls[i].counted /\ calls[i].tokenInfo.id = t}

\* The request that opened the fixed window request i of token t falls in:
\* the token's first counted request opens one, and so does every request
\* that arrives windowMs or more after the opening of the window before it.
RECURSIVE windowOpener(_, _)
windowOpener(t, i) ==
  LET before == {j \in countedCalls(t) : j < i}
  IN IF before = {} THEN i
     ELSE LET prev == CHOOSE j \in before : \A k \in before : k <= j
              o == windowOpener(t, prev)
          IN IF calls[i].at >= calls[o].at + windowMs THEN i ELSE o

\* Request i is the rank-th request of its window.
windowRank(t, i) ==
  Cardinality({j \in countedCalls(t) : windowOpener(t, i) <= j /\ j <= i})

\* C11: for a token with rateLimit L >= 1, a request passes the limiter when
\* it is among the first L requests of its 60 s window and is answered 429
\* when it is a later one; a request arriving windowMs or more after the
\* window opened (at or after resetAt) opens a new window as its first
\* request, with count 1.  The counter of a token counts the requests of that
\* token alone.
C11_FixedWindowLimit ==
  \A i \in 1..Len(calls) :
    (calls[i].counted /\ calls[i].tokenInfo.rateLimit >= 1) =>
      LET t == calls[i].tokenInfo.id
          last == CHOOSE j \in countedCalls(t) : \A k \in countedCalls(t) : k <= j
      IN /\ calls[i].status = (IF windowRank(t, i) <= calls[i].tokenInfo.rateLimit THEN 0 ELSE 429)
         /\ (calls[i].status = 0) = (calls[i].relay # 0)
         /\ t \in DOMAIN requestCounts
         /\ requestCounts[t].count = windowRank(t, last)
         /\ requestCounts[t].resetAt = calls[windowOpener(t, last)].at + windowMs

\* A token with rateLimit 1: its first request passed, its second in the same
\* window got 429, and one sent when the window was over passed as the first
\* of a new window.
C11_Witness ==
  \E i, j, k \in 1..Len(calls) :
    /\ i < j /\ j < k
    /\ calls[i].counted /\ calls[j].counted /\ calls[k].counted
    /\ calls[i].tokenInfo.id = calls[j].tokenInfo.id
    /\ calls[j].tokenInfo.id = calls[k].tokenInfo.id
    /\ calls[i].tokenInfo.rateLimit = 1
    /\ calls[i].status = 0 /\ calls[j].status = 429 /\ calls[k].status = 0
    /\ calls[j].at < calls[i].at + windowMs
    /\ calls[k].at = calls[i].at + windowMs
    /\ requestCounts[calls[k].tokenInfo.id].count = 1

\* The requests that carried the value of a stored, enabled token.
authedCalls == {i \in 1..Len(calls) : DOMAIN calls[i].tokenInfo # {}}

\* C12 as the specification states it: for every token whose rateLimit is
\* set, 0 included, the limiter runs on each of its requests and lets at most
\* rateLimit of them pass within one window.
C12_EverySetLimitEnforced ==
  \A i \in authedCalls :
    "rateLimit" \in DOMAIN calls[i].tokenInfo =>
      /\ calls[i].counted
      /\ calls[i].status = 0 =>
           windowRank(calls[i].tokenInfo.id, i) <= calls[i].tokenInfo.rateLimit

\* C12: a token is unlimited when its rateLimit is absent or 0: the limiter
\* does not count its requests and all of them reach the handler.  For every
\* token whose rateLimit is an integer L >= 1 the limiter runs on each request
\* and lets at most L of them pass within one window.
C12_PositiveLimitEnforced ==
  \A i \in authedCalls :
    IF "rateLimit" \in DOMAIN calls[i].tokenInfo /\ calls[i].tokenInfo.rateLimit >= 1
    THEN /\ calls[i].counted
         /\ calls[i].status = 0 =>
              windowRank(calls[i].tokenInfo.id, i) <= calls[i].tokenInfo.rateLimit
    ELSE /\ ~calls[i].counted
         /\ calls[i].status = 0
         /\ calls[i].relay # 0

\* A token with rateLimit 0 had two requests relayed at one instant, and a
\* token with rateLimit 1 had a request answered 429.
C12_Witness ==
  \E i, j, k \in authedCalls :
    /\ i < j
    /\ calls[i].tokenInfo.id = calls[j].tokenInfo.id
    /\ "rateLimit" \in DOMAIN calls[i].tokenInfo
    /\ calls[i].tokenInfo.rateLimit = 0
    /\ calls[i].at = calls[j].at
    /\ calls[i].relay # 0 /\ calls[j].relay # 0
    /\ "rateLimit" \in DOMAIN calls[k].tokenInfo
    /\ calls[k].tokenInfo.rateLimit >= 1
    /\ calls[k].counted

\* The header is 'Bearer ' followed by the value of a stored, enabled token.
validBearer(header) ==
  /\ startsWith(header, Bearer)
  /\ \E i \in 1..Len(tokens) :
       /\ tokens[i].token = SubSeq(header, 8, Len(header))
       /\ \A j \in 1..(i - 1) : tokens[j].token # tokens[i].token
       /\ tokens[i].enabled

\* What the claim says the chain answers: 401 without a well-formed header,
\* 401 for an unknown value, 403 for a disabled token, in that order; 0 when
\* the request is let through.
expectedAuthStatus(header) ==
  IF ~startsWith(header, Bearer) THEN 401
  ELSE IF \A i \in 1..Len(tokens) : tokens[i].token # SubSeq(header, 8, Len(header)) THEN 401
  ELSE IF ~validBearer(header) THEN 403
  ELSE 0

\* C13: a /v1 request whose Authorization header is not 'Bearer <value>' with
\* <value> the value of a stored, enabled token is answered 401 (absent or
\* malformed header, unknown value) or 403 (disabled token); the limiter
\* counts nothing, no token is touched, the handler starts no relay and the
\* store is as it was.  A request with a valid header is never answered 401
\* or 403.
AuthGuardsChain ==
  \A header \in HeaderInputs :
    ChatCompletions(header, gpt4, FALSE) =>
      LET c == calls'[Len(calls')]
      IN /\ c.status \in {0, 429} <=> validBearer(header)
         /\ ~validBearer(header) =>
              /\ c.status = expectedAuthStatus(header)
              /\ ~c.counted /\ c.relay = 0
              /\ requestCounts' = requestCounts
              /\ tokens' = tokens
              /\ relays' = relays
              /\ roundRobinIndex' = roundRobinIndex
              /\ apiKeys' = apiKeys /\ logs' = logs

\* No relay exists that the chain did not start for a request with a token.
RelaysHaveTokens ==
  /\ \A r \in 1..Len(relays) :
       \E i \in authedCalls : calls[i].relay = r /\ calls[i].status = 0
  /\ \A i \in 1..Len(calls) :
       (calls[i].counted \/ calls[i].relay # 0) => i \in authedCalls

C13_AuthBeforeAll == [](RelaysHaveTokens) /\ [][AuthGuardsChain]_vars

\* One request each was turned away with 401 and with 403, and one with a
\* valid token went through to the handler.
C13_Witness ==
  \E i, j, k \in 1..Len(calls) :
    /\ calls[i].status = 401
    /\ calls[j].status = 403
    /\ calls[k].status = 0 /\ calls[k].relay # 0 /\ calls[k].counted
    /\ Len(relays) = 1

\* ------------------------------------------------------------------ selection on a changing store
\* How many requests a run of SpecSelect sends.
MaxSelects == 1

\* A model name that no key of MODEL_CHANNEL_MAP is a prefix of
claude2 == <<"c", "l", "a", "u", "d", "e", "-", "2">>

SelectModelInputs == {gpt4, claude3opus, claude2}
SelectStatusInputs == {"active", "invalid", "disabled"}
\* A token as POST /api/tokens stores it, with no rateLimit.
newToken(id, allowedChannels) ==
  [id |-> id, token |-> generateToken(id), allowedChannels |-> allowedChannels, enabled |-> TRUE]

\* db.json as an earlier run left it: two openai channels and an anthropic
\* channel, all enabled, with a key each (one active, one out of quota, one
\* never probed), and two enabled tokens,
\* one open to every channel and one restricted to channels 2 and 3.
InitSelect ==
  /\ channels = << [id |-> 1, type |-> "openai", proxyId |-> NoId,
                    loadBalanceStrategy |-> "round-robin", enabled |-> TRUE],
                   [id |-> 2, type |-> "openai", proxyId |-> NoId,
                    loadBalanceStrategy |-> "round-robin", enabled |-> TRUE],
                   [id |-> 3, type |-> "anthropic", proxyId |-> NoId,
                    loadBalanceStrategy |-> "priority", enabled |-> TRUE] >>
  /\ apiKeys = << [newApiKey(1, 1, 50, 50) EXCEPT !.status = "active"],
                  [newApiKey(2, 2, 50, 50) EXCEPT !.status = "quota_exceeded"],
                  newApiKey(3, 3, 50, 50) >>
  /\ proxies = <<>>
  /\ logs = <<>>
  /\ ids = [channel |-> 3, key |-> 3, proxy |-> 0, token |-> 2]
  /\ now = 0
  /\ roundRobinIndex = [c \in {} |-> 0]
  /\ relays = <<>>
  /\ probes = <<>>
  /\ jobs = <<>>
  /\ resp = 0
  /\ tokens = << newToken(1, {}), newToken(2, {2, 3}) >>
  /\ requestCounts = [t \in {} |-> 0]
  /\ calls = <<>>
  /\ scheduledTask = TRUE

\* Channels are disabled, enabled and deleted, keys are given a new status,
\* and the tokens send requests for several models.
SelectNext ==
  \/ \E id \in 1..ids.channel, e \in BOOLEAN : ChannelPut(id, [enabled |-> e])
  \/ \E id \in 1..ids.channel : ChannelDelete(id)
  \/ \E id \in 1..ids.key, status \in SelectStatusInputs : KeyPut(id, [status |-> status])
  \/ /\ Len(calls) < MaxSelects
     /\ \E n \in 1..ids.token, m \in SelectModelInputs :
          ChatCompletions(Bearer \o generateToken(n), m, FALSE)

SpecSelect == InitSelect /\ [][SelectNext]_vars

\* ------------------------------------------------------------------ C14
\* What holds of the (channel, key) pair a request for `model` by a token with
\* `allowedChannels` was given, read in the store the request found.
selectedPairFits(model, allowedChannels, r) ==
  /\ hasChannel(r.channel)
  /\ getChannelById(r.channel).enabled
  /\ getChannelById(r.channel).type \in matchingTypes(model)
  /\ (allowedChannels # {} => r.channel \in allowedChannels)
  /\ r.key.channelId = r.channel
  /\ r.key.status = "active"
  /\ hasApiKey(r.key.id)
  /\ getApiKeyById(r.key.id) = r.key

\* The request a step answered or passed on, when the step is a request.
lastCall == calls'[Len(calls')]

SelectionFits ==
  (Len(calls') = Len(calls) + 1 /\ lastCall.relay # 0 /\ relays'[lastCall.relay].channel # NoId)
    => selectedPairFits(lastCall.model, lastCall.tokenInfo.allowedChannels, relays'[lastCall.relay])

\* C14: whenever a request is given a (channel, key) pair, the channel is
\* stored and enabled at that moment, its type is one of the types resolved
\* for the model, its id is in the token's allowedChannels when that list is
\* not empty, and the key is a stored key of that channel with status active.
\* So a request that arrives after a channel was deleted or disabled is never
\* relayed through it, and a key whose status is unknown, invalid,
\* quota_exceeded or disabled is never selected.
C14_SelectionRespectsStore == [][SelectionFits]_vars

\* A request of the unrestricted token arrived after channel 1 was disabled
\* while its key was still active, and was relayed through channel 2.
C14_Witness ==
  /\ Len(calls) = 1
  /\ calls[1].tokenInfo.allowedChannels = {}
  /\ calls[1].relay = 1
  /\ relays[1].channel = 2
  /\ relays[1].key.id = 2
  /\ hasChannel(1) /\ ~getChannelById(1).enabled
  /\ hasApiKey(1) /\ getApiKeyById(1).status = "active"

\* ------------------------------------------------------------------ C15
claudePrefix == <<"c", "l", "a", "u", "d", "e", "-">>
geminiPrefix == <<"g", "e", "m", "i", "n", "i", "-">>

\* The channel types a model name stands for when only its family prefix counts.
typesByFamily(model) ==
  IF startsWith(model, claudePrefix) THEN {"anthropic"}
  ELSE IF startsWith(model, geminiPrefix) THEN {"gemini"}
  ELSE OpenAITypes

FamilyDecidesType ==
  (Len(calls') = Len(calls) + 1 /\ lastCall.relay # 0 /\ relays'[lastCall.relay].channel # NoId)
    => getChannelById(relays'[lastCall.relay].channel).type \in typesByFamily(lastCall.model)

\* C15: a request whose model begins with 'claude-' is relayed only through
\* an anthropic channel, one whose model begins with 'gemini-' only through a
\* gemini channel, and any other model only through an openai or
\* openai-compatible channel.
C15_FamilyPrefixRouting == [][FamilyDecidesType]_vars

\* ------------------------------------------------------------------ the load balancer on given key lists
\* How many keys the channel under test has at most.
MaxKeys == 3
\* How many requests a run of SpecBalance sends.
MaxBalanceCalls == 4

\* An active key with the given statistics.
activeKey(id, channelId, priority, errorCount, totalRequests) ==
  [newApiKey(id, channelId, priority, 50) EXCEPT
     !.status = "active", !.errorCount = errorCount, !.totalRequests = totalRequests]

\* The statistics a strategy reads, as <<priority, errorCount, totalRequests>>.
KeyProfiles(strategy) ==
  CASE strategy = "priority" -> {<<p, e, 0>> : p \in 1..2, e \in 0..1}
    [] strategy = "least-used" -> {<<50, 0, t>> : t \in 0..2}
    [] OTHER -> {<<50, 0, 0>>}

\* db.json as an earlier run left it: channel 1 with any strategy but
\* weighted and one to MaxKeys active keys of any statistics, and channel 2,
\* round-robin, with two active keys.
InitBalance ==
  \E strategy \in {"round-robin", "priority", "least-used"}, n \in 1..MaxKeys :
    \E profile \in [1..n -> KeyProfiles(strategy)] :
      /\ channels = << [id |-> 1, type |-> "openai", proxyId |-> NoId,
                        loadBalanceStrategy |-> strategy, enabled |-> TRUE],
                       [id |-> 2, type |-> "openai", proxyId |-> NoId,
                        loadBalanceStrategy |-> "round-robin", enabled |-> TRUE] >>
      /\ apiKeys = [i \in 1..n |-> activeKey(i, 1, profile[i][1], profile[i][2], profile[i][3])]
                     \o << activeKey(n + 1, 2, 50, 0, 0), activeKey(n + 2, 2, 50, 0, 0) >>
      /\ proxies = <<>>
      /\ logs = <<>>
      /\ ids = [channel |-> 2, key |-> n + 2, proxy |-> 0, token |-> 0]
      /\ now = 0
      /\ roundRobinIndex = [c \in {} |-> 0]
      /\ relays = <<>>
      /\ probes = <<>>
      /\ jobs = <<>>
      /\ resp = 0
      /\ tokens = <<>>
      /\ requestCounts = [t \in {} |-> 0]
      /\ calls = <<>>
      /\ scheduledTask = TRUE

\* Requests arrive one after the other, each restricted to one of the channels.
BalanceNext ==
  /\ Len(relays) < MaxBalanceCalls
  /\ \E c \in 1..ids.channel : RelayStart(gpt4, {c}, FALSE) /\ UNCHANGED gateVars

SpecBalance == InitBalance /\ [][BalanceNext]_vars

\* ------------------------------------------------------------------ C16
\* How many of the first i - 1 requests were given a key of channel c.
earlierOn(c, i) == Cardinality({j \in 1..(i - 1) : relays[j].channel = c})

roundRobinChannels == {c \in 1..Len(channels) : channels[c].loadBalanceStrategy = "round-robin"}

\* C16: on a channel with the round-robin strategy and a fixed list of n
\* active keys, the request that is the k-th (from 0) to be given a key of
\* that channel gets keys[k mod n], whatever was selected on other channels
\* in between.
C16_RoundRobinCycles ==
  \A i \in 1..Len(relays) :
    LET c == relays[i].channel
    IN c \in roundRobinChannels =>
         LET keys == getActiveKeysByChannel(c)
         IN relays[i].key = keys[(earlierOn(c, i) % Len(keys)) + 1]

\* Channel 1 has two keys and was used three times, wrapping round to its
\* first key, with a selection on channel 2 in between.
C16_Witness ==
  /\ 1 \in roundRobinChannels
  /\ Len(getActiveKeysByChannel(1)) = 2
  /\ Len(relays) = 4
  /\ relays[1].channel = 1 /\ relays[2].channel = 2
  /\ relays[3].channel = 1 /\ relays[4].channel = 1
  /\ relays[3].key.id = 2
  /\ relays[4].key.id = 1

\* ------------------------------------------------------------------ C17
\* The relays that were given a key of channel 1, whose strategy varies.
relaysOn1 == {i \in 1..Len(relays) : relays[i].channel = 1}

\* Position in keys of the key a relay holds.
positionIn(keys, key) == CHOOSE i \in 1..Len(keys) : keys[i] = key

\* C17: the priority strategy returns a key of the highest priority among
\* the active keys; among the keys of that priority, one of the lowest
\* errorCount; and among those, the one that comes first in the input list.
C17_PriorityThenErrors ==
  channels[1].loadBalanceStrategy = "priority" =>
    \A r \in relaysOn1 :
      LET keys == getActiveKeysByChannel(1)
          i == positionIn(keys, relays[r].key)
      IN /\ \A j \in 1..Len(keys) : keys[j].priority <= keys[i].priority
         /\ \A j \in 1..Len(keys) :
              keys[j].priority = keys[i].priority => keys[i].errorCount <= keys[j].errorCount
         /\ \A j \in 1..(i - 1) :
              ~(keys[j].priority = keys[i].priority /\ keys[j].errorCount = keys[i].errorCount)

\* Three keys: a top-priority key with an error, a lower-priority key without,
\* and a second top-priority key without errors, which is the one selected.
C17_Witness ==
  /\ channels[1].loadBalanceStrategy = "priority"
  /\ Len(getActiveKeysByChannel(1)) = 3
  /\ getApiKeyById(1).priority = 2 /\ getApiKeyById(1).errorCount = 1
  /\ getApiKeyById(2).priority = 1 /\ getApiKeyById(2).errorCount = 0
  /\ getApiKeyById(3).priority = 2 /\ getApiKeyById(3).errorCount = 0
  /\ relaysOn1 # {}
  /\ \A r \in relaysOn1 : relays[r].key.id = 3

\* ------------------------------------------------------------------ C18
\* C18: the least-used strategy returns a key of the lowest totalRequests
\* among the active keys, and among those the one that comes first in the
\* input list.
C18_LeastUsedFirst ==
  channels[1].loadBalanceStrategy = "least-used" =>
    \A r \in relaysOn1 :
      LET keys == getActiveKeysByChannel(1)
          i == positionIn(keys, relays[r].key)
      IN /\ \A j \in 1..Len(keys) : keys[i].totalRequests <= keys[j].totalRequests
         /\ \A j \in 1..(i - 1) : keys[j].totalRequests # keys[i].totalRequests

\* Three keys with totalRequests 1, 0, 0: the second is selected.
C18_Witness ==
  /\ channels[1].loadBalanceStrategy = "least-used"
  /\ Len(getActiveKeysByChannel(1)) = 3
  /\ getApiKeyById(1).totalRequests = 1
  /\ getApiKeyById(2).totalRequests = 0
  /\ getApiKeyById(3).totalRequests = 0
  /\ relaysOn1 # {}
  /\ \A r \in relaysOn1 : relays[r].key.id = 2

\* ------------------------------------------------------------------ C20
\* C20: at every moment every stored log is at most maxLogsRetention old,
\* also when time passes and no log is appended.
C20_RetainedLogsWithinRetention ==
  \A i \in 1..Len(logs) : now - logs[i].timestamp <= MaxLogsRetention

\* ------------------------------------------------------------------ checkKey
\* How many probes a run of SpecProbe starts.
MaxProbes == 2

ChannelType == {"openai", "anthropic", "gemini", "openai-compatible"}
TestMethod == {"balance", "chat", "models"}

\* What fetchWithProxy can come to: a response with a status and a body that
\* is JSON or not, or a rejection (connection failure, proxy failure, the
\* 30 s AbortSignal.timeout).
response(status, json) == [kind |-> "response", status |-> status, json |-> json]
fetchRejects == [kind |-> "rejects", status |-> 0, json |-> FALSE]

\* A KeyCheckResult: its status and whether its error field is set.
checkResult(status, error) == [status |-> status, error |-> error]

\* An optional number: the empty tuple is JavaScript's undefined, <<n>> the
\* number n.
undefined == <<>>

\* data.total_available of a parsed credit_grants body
totalAvailable(res) == IF "total_available" \in DOMAIN res THEN res.total_available ELSE undefined

\* result.balance
resultBalance(result) == IF "balance" \in DOMAIN result THEN result.balance ELSE undefined

\* key.balance
storedBalance(key) == IF "balance" \in DOMAIN key THEN key.balance ELSE undefined

\* The catch block of the three check functions.
caught == checkResult("invalid", TRUE)

handleErrorResponse(res) ==
  checkResult(IF res.status = 401 \/ res.status = 403 THEN "invalid"
              ELSE IF res.status = 429 THEN "quota_exceeded"
              ELSE "invalid",
              TRUE)

checkOpenAI(channel, res) ==
  IF res.kind = "rejects" THEN caught
  ELSE IF channel.testMethod = "models"
       THEN IF ok(res.status) THEN checkResult("active", FALSE) ELSE handleErrorResponse(res)
  ELSE IF channel.testMethod = "balance"
       THEN IF ok(res.status)
            THEN IF res.json
                 THEN spread(checkResult("active", FALSE), [balance |-> totalAvailable(res)])
                 ELSE caught
            ELSE handleErrorResponse(res)
  ELSE IF ok(res.status) THEN checkResult("active", FALSE) ELSE handleErrorResponse(res)

checkAnthropic(channel, res) ==
  IF res.kind = "rejects" THEN caught
  ELSE IF channel.testMethod = "models"
       THEN IF ok(res.status) THEN checkResult("active", FALSE) ELSE handleErrorResponse(res)
  ELSE IF ok(res.status) THEN checkResult("active", FALSE) ELSE handleErrorResponse(res)

checkGemini(channel, res) ==
  IF res.kind = "rejects" THEN caught
  ELSE IF channel.testMethod = "models"
       THEN IF ok(res.status) THEN checkResult("active", FALSE) ELSE handleErrorResponse(res)
  ELSE IF ok(res.status) THEN checkResult("active", FALSE) ELSE handleErrorResponse(res)

\* checkKey, given what its one fetch comes to.
checkKey(channel, res) ==
  CASE channel.type = "anthropic" -> checkAnthropic(channel, res)
    [] channel.type = "gemini" -> checkGemini(channel, res)
    [] OTHER -> checkOpenAI(channel, res)

\* checkSingleKey after the await of checkKey, with the upstream's answer
\* and the result kept beside the finished probe.  channel.type and
\* channel.testMethod are read before the fetch is awaited; no action of
\* SpecProbe changes a channel.
ProbeCheck(p, res) ==
  /\ p \in 1..Len(probes)
  /\ probes[p].pc = "probing"
  /\ LET key == probes[p].key
         result == checkKey(getChannelById(key.channelId), res)
     IN /\ apiKeys' = updateApiKey(key.id, spread(probeUpdate(key, result.status),
                                                     [balance |-> resultBalance(result)]))
        /\ probes' = [probes EXCEPT ![p] = [pc |-> "done", key |-> NoKey,
                                            res |-> res, result |-> result]]
  /\ resp' = 200
  /\ UNCHANGED <<channels, proxies, logs, ids, now, roundRobinIndex, relays, jobs, gateVars>>

UpstreamInputs ==
  {response(s, TRUE) : s \in {200, 302, 400, 401, 403, 404, 429, 500}}
    \cup {response(200, FALSE), response(204, FALSE), response(401, FALSE), fetchRejects}
    \cup {spread(response(200, TRUE), [total_available |-> <<5>>])}

\* db.json as an earlier run left it: one channel of any type and test
\* method, with a key that was never probed or was disabled by hand.
InitProbe ==
  \E type \in ChannelType, testMethod \in TestMethod, status \in {"unknown", "disabled"} :
    /\ channels = << [id |-> 1, type |-> type, proxyId |-> NoId,
                      loadBalanceStrategy |-> "round-robin", enabled |-> TRUE,
                      testMethod |-> testMethod] >>
    /\ apiKeys = << [newApiKey(1, 1, 50, 50) EXCEPT !.status = status] >>
    /\ proxies = <<>>
    /\ logs = <<>>
    /\ ids = [channel |-> 1, key |-> 1, proxy |-> 0, token |-> 0]
    /\ now = 0
    /\ roundRobinIndex = [c \in {} |-> 0]
    /\ relays = <<>>
    /\ probes = <<>>
    /\ jobs = <<>>
    /\ resp = 0
    /\ tokens = <<>>
    /\ requestCounts = [t \in {} |-> 0]
    /\ calls = <<>>
    /\ scheduledTask = TRUE

\* The key is probed again and again, the upstream answering in every way.
ProbeNext ==
  \/ /\ Len(probes) < MaxProbes
     /\ ProbeStart(1)
  \/ \E p \in 1..Len(probes), res \in UpstreamInputs : ProbeCheck(p, res)

SpecProbe == InitProbe /\ [][ProbeNext]_vars

\* ------------------------------------------------------------------ C19
\* The status the upstream's answer stands for.
statusFor(res) ==
  IF res.kind = "rejects" THEN "invalid"
  ELSE IF ok(res.status) THEN "active"
  ELSE IF res.status = 429 THEN "quota_exceeded"
  ELSE "invalid"

\* C19: for every channel type and test method a finished probe reports
\* active for an upstream 2xx, invalid for 401 and 403, quota_exceeded for
\* 429, invalid for every other status, and invalid with the error set for a
\* transport error or timeout; it never reports disabled or unknown.
C19_ProbeClassifiesByStatus ==
  \A p \in 1..Len(probes) :
    probes[p].pc = "done" =>
      /\ probes[p].result.status \in {"active", "invalid", "quota_exceeded"}
      /\ probes[p].result.status = statusFor(probes[p].res)
      /\ (probes[p].res.kind = "rejects" => probes[p].result.error)

\* ------------------------------------------------------------------ the streaming loop, chunk by chunk
\* How many chunks the upstream of one stream sends at most.
MaxChunks == 2
\* How many streaming requests a run of SpecStream sends.
MaxStreams == 1

\* What the reader loop of a relay has seen so far.  A relay gets these
\* fields with its first chunk or when its client goes away: `closed` is the
\* client's socket being gone (res.destroyed), `chunks` counts the reads
\* that returned a chunk, `afterClose` those of them made after the close,
\* `written` the values res.write was called with, in order.  The upstream's
\* k-th chunk is the number k.
stream(r) ==
  IF "closed" \in DOMAIN relays[r]
  THEN [closed |-> relays[r].closed, chunks |-> relays[r].chunks,
        afterClose |-> relays[r].afterClose, written |-> relays[r].written]
  ELSE [closed |-> FALSE, chunks |-> 0, afterClose |-> 0, written |-> <<>>]

\* faulty variant: a write that puts the chunk before what was sent
writeFirst(written, value) == <<value>> \o written

\* res.write(value)
write(written, value) == Append(written, value)

\* The client closes the connection.  The handler registers no 'close' or
\* 'error' listener on req or res, so none of its code runs.
ClientClose(r) ==
  /\ r \in 1..Len(relays)
  /\ relays[r].pc \in {"fetch", "body"}
  /\ ~stream(r).closed
  /\ relays' = [relays EXCEPT ![r] = spread(@, [stream(r) EXCEPT !.closed = TRUE])]
  /\ UNCHANGED <<channels, apiKeys, proxies, logs, ids, now, roundRobinIndex, probes, jobs, resp, gateVars>>

\* Lines 173-177: one reader.read() resolved with done = false and
\* res.write(value) was called; on a destroyed response write() does not
\* throw, so the loop goes on to the next read.
StreamRead(r) ==
  /\ r \in 1..Len(relays)
  /\ relays[r].pc = "body"
  /\ relays[r].streaming /\ ok(relays[r].upstream)
  /\ relays' = [relays EXCEPT ![r] =
                  spread(@, [stream(r) EXCEPT !.chunks = @ + 1,
                                              !.afterClose = IF stream(r).closed THEN @ + 1 ELSE @,
                                              !.written = write(@, stream(r).chunks + 1)])]
  /\ UNCHANGED <<channels, apiKeys, proxies, logs, ids, now, roundRobinIndex, probes, jobs, resp, gateVars>>

\* Streaming requests whose upstream answers 200 and sends chunks, while
\* clients go away.
StreamNext ==
  \/ /\ Len(relays) < MaxStreams
     /\ RelayStart(gpt4, {}, TRUE) /\ UNCHANGED gateVars
  \/ \E r \in 1..Len(relays) : RelayResponse(r, 200)
  \/ \E r \in 1..Len(relays) : RelayFetchThrows(r)
  \/ \E r \in 1..Len(relays) : ClientClose(r)
  \/ \E r \in 1..Len(relays) : stream(r).chunks < MaxChunks /\ StreamRead(r)
  \/ \E r \in 1..Len(relays) : RelayBody(r)
  \/ \E r \in 1..Len(relays) : RelayBodyThrows(r)
  \/ \E r \in 1..Len(relays) : RelayCatch(r)

SpecStream == InitRelay /\ [][StreamNext]_vars

\* ------------------------------------------------------------------ C21
\* C21: once the client of a streaming relay has gone away, the gateway
\* reads at most one further chunk from the upstream.
C21_StopsReadingAfterClose ==
  \A r \in 1..Len(relays) : stream(r).afterClose <= 1

\* ------------------------------------------------------------------ management responses and the secrets in them
\* The routes below are the management routes once more, with the fields
\* that hold secrets (proxy.password, token.token, apiKey.key) and with the
\* body of the response: `resp` is [route, status, data], data being the
\* entities of the body in order (empty for an error body).
\* How many proxies, tokens and keys together a run of SpecSecrets creates.
MaxSecrets == 2

stars == <<"*", "*", "*", "*">>

\* String.prototype.slice(0, n) and slice(-n)
sliceFirst(s, n) == SubSeq(s, 1, IF n < Len(s) THEN n ELSE Len(s))
sliceLast(s, n) == SubSeq(s, (IF n < Len(s) THEN Len(s) - n ELSE 0) + 1, Len(s))

reply(route, status, data) == [route |-> route, status |-> status, data |-> data]

\* { ...p, password: p.password ? '****' : undefined }; JSON leaves an
\* undefined field out, and the empty string is falsy.
maskPassword(p) ==
  IF "password" \in DOMAIN p /\ p.password # <<>>
  THEN spread(p, [password |-> stars])
  ELSE [f \in DOMAIN p \ {"password"} |-> p[f]]

\* GET /api/proxies
ProxiesGet ==
  /\ resp' = reply("GET /api/proxies", 200, [i \in 1..Len(proxies) |-> maskPassword(proxies[i])])
  /\ UNCHANGED <<channels, apiKeys, proxies, logs, ids, now, roundRobinIndex, relays, probes, jobs, gateVars>>

\* GET /api/proxies/:id
ProxyGet(id) ==
  /\ resp' = IF hasProxy(id) THEN reply("GET /api/proxies/:id", 200, <<maskPassword(getProxyById(id))>>)
             ELSE reply("GET /api/proxies/:id", 404, <<>>)
  /\ UNCHANGED <<channels, apiKeys, proxies, logs, ids, now, roundRobinIndex, relays, probes, jobs, gateVars>>

\* POST /api/proxies; `secret` is what the body's password adds to the proxy:
\* a record with the field, or the empty record when the body has none.
ProxyPostReply(secret) ==
  LET proxy == spread([id |-> ids.proxy + 1, enabled |-> TRUE], secret)
  IN /\ proxies' = createProxy(proxy)
     /\ ids' = [ids EXCEPT !.proxy = @ + 1]
     /\ resp' = reply("POST /api/proxies", 201, <<proxy>>)
     /\ UNCHANGED <<channels, apiKeys, logs, now, roundRobinIndex, relays, probes, jobs, gateVars>>

\* PUT /api/proxies/:id
ProxyPutReply(id, data) ==
  /\ proxies' = updateProxy(id, data)
  /\ resp' = IF hasProxy(id)
             THEN reply("PUT /api/proxies/:id", 200, <<spread(getProxyById(id), data)>>)
             ELSE reply("PUT /api/proxies/:id", 404, <<>>)
  /\ UNCHANGED <<channels, apiKeys, logs, ids, now, roundRobinIndex, relays, probes, jobs, gateVars>>

\* Passwords a body can carry: none, the empty string, two real ones.
PasswordInputs == {<<>>, [password |-> <<>>], [password |-> <<"p", "w", "1">>],
                   [password |-> <<"p", "w", "2">>]}

\* t.token.slice(0, 6) + '****' + t.token.slice(-4) in a copy of the token
maskToken(t) == spread(t, [token |-> sliceFirst(t.token, 6) \o stars \o sliceLast(t.token, 4)])

\* GET /api/tokens
TokensGet ==
  /\ resp' = reply("GET /api/tokens", 200, [i \in 1..Len(tokens) |-> maskToken(tokens[i])])
  /\ UNCHANGED <<channels, apiKeys, proxies, logs, ids, now, roundRobinIndex, relays, probes, jobs, gateVars>>

\* POST /api/tokens: the one response with the full value
TokenPostReply ==
  LET token == newToken(ids.token + 1, {})
  IN /\ tokens' = createToken(token)
     /\ ids' = [ids EXCEPT !.token = @ + 1]
     /\ resp' = reply("POST /api/tokens", 201, <<token>>)
     /\ UNCHANGED <<channels, apiKeys, proxies, logs, now, roundRobinIndex, relays, probes, jobs,
                    requestCounts, calls, scheduledTask>>

\* PUT /api/tokens/:id; updateTokenSchema has no `token` field
TokenPutReply(id, data) ==
  /\ tokens' = updateToken(id, data)
  /\ resp' = IF hasToken(id)
             THEN reply("PUT /api/tokens/:id", 200, <<maskToken(spread(getTokenById(id), data))>>)
             ELSE reply("PUT /api/tokens/:id", 404, <<>>)
  /\ UNCHANGED <<channels, apiKeys, proxies, logs, ids, now, roundRobinIndex, relays, probes, jobs,
                 requestCounts, calls, scheduledTask>>

\* faulty variant: a mask that returns the value as it is
maskKeyNone(key) == key

maskKey(key) ==
  IF Len(key) <= 8 THEN stars ELSE sliceFirst(key, 4) \o stars \o sliceLast(key, 4)

\* { ...k, key: maskKey(k.key) }
maskedKey(k) == spread(k, [key |-> maskKey(k.key)])

\* GET /api/keys?channelId=; NoId stands for no channelId in the query
KeysGet(channelId) ==
  LET keys == IF channelId = NoId THEN apiKeys
              ELSE SelectSeq(apiKeys, LAMBDA k : k.channelId = channelId)
  IN /\ resp' = reply("GET /api/keys", 200, [i \in 1..Len(keys) |-> maskedKey(keys[i])])
     /\ UNCHANGED <<channels, apiKeys, proxies, logs, ids, now, roundRobinIndex, relays, probes, jobs, gateVars>>

\* GET /api/keys/:id
KeyGet(id) ==
  /\ resp' = IF hasApiKey(id) THEN reply("GET /api/keys/:id", 200, <<maskedKey(getApiKeyById(id))>>)
             ELSE reply("GET /api/keys/:id", 404, <<>>)
  /\ UNCHANGED <<channels, apiKeys, proxies, logs, ids, now, roundRobinIndex, relays, probes, jobs, gateVars>>

\* POST /api/keys
KeyPostReply(channelId, key) ==
  /\ IF ~hasChannel(channelId)
     THEN /\ resp' = reply("POST /api/keys", 400, <<>>)
          /\ UNCHANGED <<apiKeys, ids>>
     ELSE LET k == spread(newApiKey(ids.key + 1, channelId, 50, 50), [key |-> key])
          IN /\ apiKeys' = createApiKey(k)
             /\ ids' = [ids EXCEPT !.key = @ + 1]
             /\ resp' = reply("POST /api/keys", 201, <<maskedKey(k)>>)
  /\ UNCHANGED <<channels, proxies, logs, now, roundRobinIndex, relays, probes, jobs, gateVars>>

\* POST /api/keys/import; keyStrings is the body's text after split, trim and
\* the filter on empty strings
KeyImportReply(channelId, keyStrings) ==
  /\ IF ~hasChannel(channelId) \/ Len(keyStrings) = 0
     THEN /\ resp' = reply("POST /api/keys/import", 400, <<>>)
          /\ UNCHANGED <<apiKeys, ids>>
     ELSE LET keys == [i \in 1..Len(keyStrings) |->
                         spread(newApiKey(ids.key + i, channelId, 50, 50), [key |-> keyStrings[i]])]
          IN /\ apiKeys' = createApiKeys(keys)
             /\ ids' = [ids EXCEPT !.key = @ + Len(keyStrings)]
             /\ resp' = reply("POST /api/keys/import", 201,
                              [i \in 1..Len(keys) |-> maskedKey(keys[i])])
  /\ UNCHANGED <<channels, proxies, logs, now, roundRobinIndex, relays, probes, jobs, gateVars>>

\* PUT /api/keys/:id; updateKeySchema has no `key` field
KeyPutReply(id, data) ==
  /\ apiKeys' = updateApiKey(id, data)
  /\ resp' = IF hasApiKey(id)
             THEN reply("PUT /api/keys/:id", 200, <<maskedKey(spread(getApiKeyById(id), data))>>)
             ELSE reply("PUT /api/keys/:id", 404, <<>>)
  /\ UNCHANGED <<channels, proxies, logs, ids, now, roundRobinIndex, relays, probes, jobs, gateVars>>

\* POST /api/keys/:id/check after checkSingleKey resolved: the key is read
\* again and returned (null when it was deleted meanwhile).
KeyCheckReply(p, status) ==
  /\ p \in 1..Len(probes)
  /\ probes[p].pc = "probing"
  /\ apiKeys' = updateApiKey(probes[p].key.id, probeUpdate(probes[p].key, status))
  /\ probes' = [probes EXCEPT ![p] = [pc |-> "done", key |-> NoKey]]
  /\ resp' = reply("POST /api/keys/:id/check", 200,
                   IF hasApiKey(probes[p].key.id)
                   THEN <<maskedKey(spread(getApiKeyById(probes[p].key.id),
                                           probeUpdate(probes[p].key, status)))>>
                   ELSE <<>>)
  /\ UNCHANGED <<channels, proxies, logs, ids, now, roundRobinIndex, relays, jobs, gateVars>>

\* Provider keys of 4, 9 and 14 characters.
KeyStringInputs ==
  {<<"s", "k", "-", "1">>,
   <<"s", "k", "-", "a", "b", "c", "d", "e", "f">>,
   <<"s", "k", "-", "a", "n", "t", "-", "0", "1", "2", "3", "4", "5", "6">>}

\* db.json as an earlier run left it: one channel, nothing else; no
\* response sent yet.
InitSecrets ==
  /\ channels = << [id |-> 1, type |-> "openai", proxyId |-> NoId,
                    loadBalanceStrategy |-> "round-robin", enabled |-> TRUE] >>
  /\ apiKeys = <<>>
  /\ proxies = <<>>
  /\ logs = <<>>
  /\ ids = [channel |-> 1, key |-> 0, proxy |-> 0, token |-> 0]
  /\ now = 0
  /\ roundRobinIndex = [c \in {} |-> 0]
  /\ relays = <<>>
  /\ probes = <<>>
  /\ jobs = <<>>
  /\ resp = reply("", 0, <<>>)
  /\ tokens = <<>>
  /\ requestCounts = [t \in {} |-> 0]
  /\ calls = <<>>
  /\ scheduledTask = TRUE

secretsCreated == ids.proxy + ids.token + ids.key

SecretsNext ==
  \/ ProxiesGet
  \/ \E id \in ProxyIdInputs : ProxyGet(id)
  \/ /\ secretsCreated < MaxSecrets
     /\ \E secret \in PasswordInputs : ProxyPostReply(secret)
  \/ \E id \in ProxyIdInputs, secret \in PasswordInputs \ {<<>>} : ProxyPutReply(id, secret)
  \/ TokensGet
  \/ /\ secretsCreated < MaxSecrets
     /\ TokenPostReply
  \/ \E id \in TokenIdInputs, e \in BOOLEAN : TokenPutReply(id, [enabled |-> e])
  \/ \E c \in {NoId, 1} : KeysGet(c)
  \/ \E id \in KeyIdInputs : KeyGet(id)
  \/ /\ secretsCreated < MaxSecrets
     /\ \E c \in ChannelIdInputs, key \in KeyStringInputs : KeyPostReply(c, key)
  \/ /\ secretsCreated + 1 < MaxSecrets
     /\ \E c \in ChannelIdInputs, k1 \in KeyStringInputs, k2 \in KeyStringInputs :
          KeyImportReply(c, <<k1, k2>>)
  \/ \E id \in KeyIdInputs : KeyPutReply(id, [status |-> "disabled"])
  \/ /\ Len(probes) < 1
     /\ \E id \in 1..ids.key : hasApiKey(id) /\ ProbeStart(id)
  \/ \E p \in 1..Len(probes), status \in ProbeStatus : KeyCheckReply(p, status)

SpecSecrets == InitSecrets /\ [][SecretsNext]_vars

\* ------------------------------------------------------------------ C22
\* C22: no management response about proxies holds a stored password in
\* clear: a password in a response body is '****'.
C22_PasswordsMasked ==
  \A i \in 1..Len(resp.data) :
    "password" \in DOMAIN resp.data[i] => resp.data[i].password = stars

\* ------------------------------------------------------------------ C23
rawTokens == {tokens[i].token : i \in 1..Len(tokens)}
rawKeys == {apiKeys[i].key : i \in 1..Len(apiKeys)}

\* The body's token values: raw in the creating response, masked elsewhere.
TokenValuesMasked ==
  \A i \in 1..Len(resp.data) :
    "token" \in DOMAIN resp.data[i] =>
      IF resp.route = "POST /api/tokens"
      THEN resp.data[i].token = generateToken(resp.data[i].id)
      ELSE /\ resp.data[i].token \notin rawTokens
           /\ resp.data[i].token =
                sliceFirst(generateToken(resp.data[i].id), 6) \o stars
                  \o sliceLast(generateToken(resp.data[i].id), 4)

KeyValuesMasked ==
  \A i \in 1..Len(resp.data) :
    "key" \in DOMAIN resp.data[i] => resp.data[i].key \notin rawKeys

StoredValuesKept ==
  /\ \A i \in 1..Len(tokens) : tokens[i].token = generateToken(tokens[i].id)
  /\ \A i \in 1..Len(apiKeys) : apiKeys[i].key \in KeyStringInputs

\* C23: a token's raw value is in the response that creates it and in no
\* other management response, where it is first 6 characters + '****' + last
\* 4; a provider key's raw value is in no management response; and the
\* stored values stay what they were when created.
C23_SecretsMaskedInResponses ==
  /\ TokenValuesMasked
  /\ KeyValuesMasked
  /\ StoredValuesKept

\* After a token and a 14-character key were created, the key list is
\* returned with the key masked while the store holds it raw.
C23_Witness ==
  /\ Len(tokens) = 1
  /\ resp.route = "GET /api/keys"
  /\ Len(resp.data) = 1
  /\ Len(apiKeys[1].key) = 14
  /\ resp.data[1].key = <<"s", "k", "-", "a", "*", "*", "*", "*", "3", "4", "5", "6">>

\* ------------------------------------------------------------------ updates and deletes of what is not stored
\* How many relays, probes and jobs together a run of SpecMissing starts.
MaxInFlight == 1

\* db.json as an earlier run left it: a channel with an active key, a
\* proxy and a token.
InitMissing ==
  /\ channels = << [id |-> 1, type |-> "openai", proxyId |-> NoId,
                    loadBalanceStrategy |-> "round-robin", enabled |-> TRUE] >>
  /\ apiKeys = << [newApiKey(1, 1, 50, 50) EXCEPT !.status = "active"] >>
  /\ proxies = << [id |-> 1, enabled |-> TRUE] >>
  /\ logs = <<>>
  /\ ids = [channel |-> 1, key |-> 1, proxy |-> 1, token |-> 1]
  /\ now = 0
  /\ roundRobinIndex = [c \in {} |-> 0]
  /\ relays = <<>>
  /\ probes = <<>>
  /\ jobs = <<>>
  /\ resp = 0
  /\ tokens = << newToken(1, {}) >>
  /\ requestCounts = [t \in {} |-> 0]
  /\ calls = <<>>
  /\ scheduledTask = TRUE

\* Everything stored is updated and deleted, by ids that are stored, were
\* stored or never were, while relays, probes and a job are in flight.
MissingNext ==
  \/ \E id \in ChannelIdInputs : ChannelPut(id, [enabled |-> FALSE])
  \/ \E id \in ChannelIdInputs : ChannelDelete(id)
  \/ \E id \in KeyIdInputs : KeyPut(id, [status |-> "disabled"])
  \/ \E id \in KeyIdInputs : KeyDelete(id)
  \/ \E id \in ProxyIdInputs : ProxyPut(id, [enabled |-> FALSE])
  \/ \E id \in ProxyIdInputs : ProxyDelete(id)
  \/ \E id \in TokenIdInputs : TokenPut(id, [enabled |-> FALSE])
  \/ \E id \in TokenIdInputs : TokenDelete(id)
  \/ /\ requestsStarted < MaxInFlight
     /\ RelayStart(gpt4, {}, FALSE) /\ UNCHANGED gateVars
  \/ \E r \in 1..Len(relays), status \in UpstreamStatus : RelayResponse(r, status)
  \/ \E r \in 1..Len(relays) : RelayFetchThrows(r)
  \/ \E r \in 1..Len(relays) : RelayBody(r)
  \/ \E r \in 1..Len(relays) : RelayBodyThrows(r)
  \/ \E r \in 1..Len(relays) : RelayCatch(r)
  \/ /\ requestsStarted < MaxInFlight
     /\ \E id \in KeyIdInputs : ProbeStart(id)
  \/ \E p \in 1..Len(probes), status \in ProbeStatus : ProbeResult(p, status)
  \/ /\ requestsStarted < MaxInFlight
     /\ JobStart(FALSE)
  \/ \E j \in 1..Len(jobs), status \in ProbeStatus : JobResult(j, status)
  \/ \E j \in 1..Len(jobs) : JobResume(j)

SpecMissing == InitMissing /\ [][MissingNext]_vars

storeVars == <<channels, apiKeys, proxies, tokens, logs>>

\* An update or a delete by an id that is not stored answers 404 and leaves
\* the store as it was.
UnknownIdLeavesStore ==
  /\ \A id \in ChannelIdInputs :
       ~hasChannel(id) /\ (ChannelPut(id, [enabled |-> FALSE]) \/ ChannelDelete(id))
         => resp' = 404 /\ UNCHANGED storeVars
  /\ \A id \in KeyIdInputs :
       ~hasApiKey(id) /\ (KeyPut(id, [status |-> "disabled"]) \/ KeyDelete(id))
         => resp' = 404 /\ UNCHANGED storeVars
  /\ \A id \in ProxyIdInputs :
       ~hasProxy(id) /\ (ProxyPut(id, [enabled |-> FALSE]) \/ ProxyDelete(id))
         => resp' = 404 /\ UNCHANGED storeVars
  /\ \A id \in TokenIdInputs :
       ~hasToken(id) /\ (TokenPut(id, [enabled |-> FALSE]) \/ TokenDelete(id))
         => resp' = 404 /\ UNCHANGED storeVars

\* A relay, a probe or a job step that writes the stats of a key which is no
\* longer stored leaves every key as it was, and no step stores a key again.
LateWriteLeavesKeys ==
  /\ \A r \in 1..Len(relays) :
       /\ relays[r].pc \in {"fetch", "body"}
       /\ relays'[r].pc # relays[r].pc
       /\ ~hasApiKey(relays[r].key.id)
       => apiKeys' = apiKeys
  /\ \A p \in 1..Len(probes) :
       /\ probes[p].pc = "probing"
       /\ probes'[p].pc = "done"
       /\ ~hasApiKey(probes[p].key.id)
       => apiKeys' = apiKeys
  /\ \A j \in 1..Len(jobs) :
       /\ jobs[j].pc = "probing"
       /\ jobs'[j].pc = "paused"
       /\ ~hasApiKey(Head(jobs[j].channelKeys).id)
       => apiKeys' = apiKeys
  /\ \A id \in KeyIdInputs : ~hasApiKey(id) => findIndex(apiKeys', id) = 0

\* C24: an update or a delete of a key, a channel, a proxy or a token by an
\* id that is not stored answers "not found" and leaves the whole store
\* unchanged, and a relay or a probe that completes after its key was deleted
\* does not store the key, or any part of it, again.
C24_UnknownIdChangesNothing == [][UnknownIdLeavesStore /\ LateWriteLeavesKeys]_vars

\* A relay got its upstream response and wrote its log row after its key had
\* been deleted, and a later update by an unknown id was answered 404.
C24_Witness ==
  /\ resp = 404
  /\ \E r \in 1..Len(relays) :
       /\ relays[r].pc = "done"
       /\ relays[r].upstream # 0
       /\ ~hasApiKey(relays[r].key.id)

\* ------------------------------------------------------------------ reading the logs
\* How many rows the stored log holds at most in a run of SpecQuery.
MaxLogs == 2
\* 86400000 ms, in ticks
Day == 2880
\* filters?.limit || 50
DefaultLimit == 50

\* logs.sort((a, b) => b.timestamp - a.timestamp): descending, and stable
\* (rows of equal timestamp keep their order).
RECURSIVE insertByTimestamp(_, _)
insertByTimestamp(l, sorted) ==
  IF sorted = <<>> THEN <<l>>
  ELSE IF Head(sorted).timestamp <= l.timestamp THEN <<l>> \o sorted
  ELSE <<Head(sorted)>> \o insertByTimestamp(l, Tail(sorted))

RECURSIVE sortByTimestamp(_)
sortByTimestamp(seq) ==
  IF seq = <<>> THEN <<>> ELSE insertByTimestamp(Head(seq), sortByTimestamp(Tail(seq)))

\* Array.prototype.slice(start, end) for start, end >= 0
slice(seq, start, end) ==
  LET last == IF end < Len(seq) THEN end ELSE Len(seq)
  IN IF start >= last THEN <<>> ELSE SubSeq(seq, start + 1, last)

\* `if (filters?.f)`: the field is there and is not 0
truthy(filters, f) == f \in DOMAIN filters /\ filters[f] # 0

\* The rows getLogs keeps: each filter that passes its truthiness test is applied.
filterLogs(filters) ==
  SelectSeq(logs, LAMBDA l :
    /\ truthy(filters, "channelId") => l.channelId = filters.channelId
    /\ truthy(filters, "status") => l.status = filters.status
    /\ truthy(filters, "startTime") => l.timestamp >= filters.startTime
    /\ truthy(filters, "endTime") => l.timestamp <= filters.endTime)

\* Whether a filter replaced `logs` by a new array; if none did, the sort
\* works on db.data.logs itself.
filtered(filters) ==
  \E f \in {"channelId", "status", "startTime", "endTime"} : truthy(filters, f)

\* getLogs: what it returns, and db.data.logs after it.
getLogs(filters) ==
  LET sorted == sortByTimestamp(filterLogs(filters))
      offset == IF truthy(filters, "offset") THEN filters.offset ELSE 0
      limit == IF truthy(filters, "limit") THEN filters.limit ELSE DefaultLimit
  IN [logs |-> slice(sorted, offset, offset + limit),
      total |-> Len(sorted),
      stored |-> IF filtered(filters) THEN logs ELSE sorted]

\* getLogsForStats
getLogsForStats(since) == SelectSeq(logs, LAMBDA l : l.timestamp >= since)

\* GET /api/logs: a parameter of the query string that is there is parsed to
\* a number, limit and offset get their defaults.
logsFilters(query) ==
  spread([limit |-> DefaultLimit, offset |-> 0], query)

LogsGet(query) ==
  /\ LET result == getLogs(logsFilters(query))
     IN /\ resp' = reply("logs", 200, [query |-> query, logs |-> result.logs, total |-> result.total])
        /\ logs' = result.stored
  /\ UNCHANGED <<channels, apiKeys, proxies, ids, now, roundRobinIndex, relays, probes, jobs, gateVars>>

\* GET /api/stats, the part that reads the logs.
StatsGet ==
  /\ LET last24h == now - Day
         recentLogs == getLogsForStats(last24h)
     IN resp' = reply("stats", 200,
                      [since |-> last24h, recentLogs |-> recentLogs,
                       totalRequests24h |-> Len(recentLogs),
                       successRequests24h |->
                         Len(SelectSeq(recentLogs, LAMBDA l : l.status >= 200 /\ l.status < 400))])
  /\ UNCHANGED <<channels, apiKeys, proxies, logs, ids, now, roundRobinIndex, relays, probes, jobs, gateVars>>

\* A row as the relay builds it (relayLog), number i of the stored ones.
logRow(i, timestamp, channelId, status) ==
  [req |-> i, timestamp |-> timestamp, channelId |-> channelId, keyId |-> channelId,
   status |-> status, streaming |-> FALSE, error |-> ~ok(status)]

\* The stored logs an earlier run can have left: rows appended in any order
\* of their timestamps (a row is stamped when its upstream answers and
\* appended when its body ends), with ties.
LogInputs ==
  UNION {{[i \in 1..n |-> logRow(i, ts[i], cs[i][1], cs[i][2])] :
            ts \in [1..n -> 1..3], cs \in [1..n -> {<<1, 200>>, <<1, 429>>, <<2, 200>>}]}
         : n \in 0..MaxLogs}

\* Query strings: each parameter left out or given, 0 included.
optional(f, values) == {<<>>} \cup {[x \in {f} |-> v] : v \in values}

FilterInputs ==
  {<<>>, [channelId |-> 1], [status |-> 429], [startTime |-> 2], [endTime |-> 2], [endTime |-> 0],
   [channelId |-> 1, status |-> 429], [startTime |-> 2, endTime |-> 2],
   [channelId |-> 1, status |-> 429, startTime |-> 2, endTime |-> 3]}

QueryInputs ==
  {spread(spread(f, l), o) :
     f \in FilterInputs, l \in optional("limit", {0, 1}), o \in optional("offset", {1})}

InitQuery ==
  /\ channels = << [id |-> 1, type |-> "openai", proxyId |-> NoId,
                    loadBalanceStrategy |-> "round-robin", enabled |-> TRUE],
                   [id |-> 2, type |-> "openai", proxyId |-> NoId,
                    loadBalanceStrategy |-> "round-robin", enabled |-> TRUE] >>
  /\ apiKeys = << [newApiKey(1, 1, 50, 50) EXCEPT !.status = "active"],
                  [newApiKey(2, 2, 50, 50) EXCEPT !.status = "active"] >>
  /\ proxies = <<>>
  /\ logs \in LogInputs
  /\ ids = [channel |-> 2, key |-> 2, proxy |-> 0, token |-> 0]
  /\ now = Day + 2
  /\ roundRobinIndex = [c \in {} |-> 0]
  /\ relays = <<>>
  /\ probes = <<>>
  /\ jobs = <<>>
  /\ resp = reply("", 0, <<>>)
  /\ tokens = <<>>
  /\ requestCounts = [t \in {} |-> 0]
  /\ calls = <<>>
  /\ scheduledTask = TRUE

QueryNext ==
  \/ \E query \in QueryInputs : LogsGet(query)
  \/ StatsGet

SpecQuery == InitQuery /\ [][QueryNext]_vars

descending(seq) == \A i \in 1..Len(seq) - 1 : seq[i].timestamp >= seq[i + 1].timestamp

rowsIn(seq) == {seq[i] : i \in 1..Len(seq)}

\* C25: logsSince(t) returns exactly the stored logs whose timestamp is at
\* least t, sorted by timestamp descending, in whatever order they were
\* appended.
C25_LogsSinceSortedDescending ==
  resp.route = "stats" =>
    /\ rowsIn(resp.data.recentLogs) = {l \in rowsIn(logs) : l.timestamp >= resp.data.since}
    /\ Len(resp.data.recentLogs) = Cardinality(rowsIn(resp.data.recentLogs))
    /\ descending(resp.data.recentLogs)

\* The rows the query asks for: every parameter that is given is a filter.
matching(query) ==
  {l \in rowsIn(logs) :
     /\ "channelId" \in DOMAIN query => l.channelId = query.channelId
     /\ "status" \in DOMAIN query => l.status = query.status
     /\ "startTime" \in DOMAIN query => l.timestamp >= query.startTime
     /\ "endTime" \in DOMAIN query => l.timestamp <= query.endTime}

\* seq is the part [offset, offset + limit) of rows sorted by descending
\* timestamp, in whatever order rows of equal timestamp stand.
isPage(seq, rows, offset, limit) ==
  LET rest == IF Cardinality(rows) > offset THEN Cardinality(rows) - offset ELSE 0
  IN /\ Len(seq) = IF limit < rest THEN limit ELSE rest
     /\ rowsIn(seq) \subseteq rows
     /\ Len(seq) = Cardinality(rowsIn(seq))
     /\ descending(seq)
     /\ \A i \in 1..Len(seq) :
          /\ Cardinality({l \in rows : l.timestamp > seq[i].timestamp}) <= offset + i - 1
          /\ Cardinality({l \in rows : l.timestamp >= seq[i].timestamp}) >= offset + i

\* C26: queryLogs returns (slice, total): total is the number of stored logs
\* that satisfy all the given filters (channelId, status, startTime <=
\* timestamp <= endTime), and slice is the part [offset, offset + limit) of
\* those logs sorted by timestamp descending, offset defaulting to 0 and
\* limit to 50.
C26_QueryLogsPageAndTotal ==
  resp.route = "logs" =>
    LET query == resp.data.query
        offset == IF "offset" \in DOMAIN query THEN query.offset ELSE 0
        limit == IF "limit" \in DOMAIN query THEN query.limit ELSE DefaultLimit
    IN /\ resp.data.total = Cardinality(matching(query))
       /\ isPage(resp.data.logs, matching(query), offset, limit)

\* The same for the queries whose given parameters are not 0.
QueryLogsNonZero ==
  (resp.route = "logs" /\ \A f \in DOMAIN resp.data.query : resp.data.query[f] # 0)
    => C26_QueryLogsPageAndTotal

\* The step on which probe p writes its result to a key that is stored.
ProbeWriteFromStored ==
  \A p \in 1..Len(probes) :
    LET i == findIndex(apiKeys, probes[p].key.id)
    IN (probes[p].pc = "probing" /\ probes'[p].pc = "done" /\ i # 0) =>
         apiKeys'[i].errorCount =
           IF apiKeys'[i].status = "active" THEN 0 ELSE apiKeys[i].errorCount + 1

\* C27: the write of a probe result is atomic with respect to the key's
\* counters: after a result that is not active the stored errorCount is the
\* value stored immediately before the write plus 1 (0 after an active one),
\* also when a relay or another probe updated errorCount while the probe was
\* in flight.
C27_ProbeWriteAtomic == [][ProbeWriteFromStored]_vars

\* The step on which relay r's fetch rejects, and the step that ends it.
TransportFailureCounts ==
  \A r \in 1..Len(relays) :
    LET i == findIndex(apiKeys, relays[r].key.id)
    IN /\ (relays[r].pc = "fetch" /\ relays'[r].pc = "catch" /\ i # 0) =>
            apiKeys' = [apiKeys EXCEPT ![i].errorCount = @ + 1]
       /\ (relays[r].pc = "catch" /\ relays'[r].pc = "done") =>
            /\ relays'[r].status = 500
            /\ apiKeys' = apiKeys
            /\ \E k \in 1..Len(logs') :
                 logs'[k].req = r /\ logs'[k].status = 500 /\ logs'[k].error

\* C29: when the transport of a relay fails (no upstream response), only the
\* key's errorCount changes, by exactly +1; totalRequests stays as it was,
\* the client gets a 500 and the log row has status 500 with its error set.
C29_TransportFailureAddsOne == [][TransportFailureCounts]_vars

\* The step on which probe p writes its result to a key that is stored.
BalanceFollowsResult ==
  \A p \in 1..Len(probes) :
    LET i == findIndex(apiKeys, probes[p].key.id)
    IN (probes[p].pc = "probing" /\ probes'[p].pc = "done" /\ i # 0) =>
         storedBalance(apiKeys'[i]) =
           IF resultBalance(probes'[p].result) # undefined
           THEN resultBalance(probes'[p].result)
           ELSE storedBalance(apiKeys[i])

\* C28: a probe result overwrites the stored balance only if the result
\* carries a balance; otherwise the balance stored before stays as it was.
C28_BalanceKeptWithoutResult == [][BalanceFollowsResult]_vars

\* The positions in `el` of the channels that have a stored key with status active.
withActiveKey(el) ==
  {i \in 1..Len(el) :
     \E k \in 1..Len(apiKeys) : apiKeys[k].channelId = el[i].id /\ apiKeys[k].status = "active"}

\* The round-robin cursor of every channel but `channelId` is as it was.
otherCursorsKept(channelId) ==
  \A c \in (DOMAIN roundRobinIndex \cup DOMAIN roundRobinIndex') \ {channelId} :
    /\ c \in DOMAIN roundRobinIndex
    /\ c \in DOMAIN roundRobinIndex'
    /\ roundRobinIndex'[c] = roundRobinIndex[c]

FirstChannelWithKeyWins ==
  (Len(calls') = Len(calls) + 1 /\ lastCall.relay # 0) =>
    LET el == eligibleChannels(lastCall.model, lastCall.tokenInfo.allowedChannels)
        hit == withActiveKey(el)
        r == relays'[lastCall.relay]
    IN IF hit = {}
       THEN r.status = 503 /\ r.channel = NoId /\ roundRobinIndex' = roundRobinIndex
       ELSE /\ r.status # 503
            /\ r.channel = el[CHOOSE i \in hit : \A j \in hit : i <= j].id
            /\ otherCursorsKept(r.channel)

\* C30: a relay tries the eligible channels in the order they were stored
\* and uses the first for which the balancer returns a key; it answers 503
\* exactly when no eligible channel has an active key; the channels after the
\* one it uses are not asked, so their round-robin cursors stay as they were.
C30_FirstEligibleChannelWins == [][FirstChannelWithKeyWins]_vars

\* A request was relayed through channel 2, the second eligible channel,
\* because the key of channel 1 was not active; only channel 2 has a cursor.
C30_Witness ==
  /\ Len(calls) = 1
  /\ calls[1].relay = 1
  /\ relays[1].channel = 2
  /\ hasChannel(1) /\ getChannelById(1).enabled
  /\ hasApiKey(1) /\ getApiKeyById(1).status # "active"
  /\ DOMAIN roundRobinIndex = {2}

\* ------------------------------------------------------------------ the scheduler
\* How many runKeyCheck jobs a run of SpecStop or SpecSched starts.
MaxJobs == 2

\* startScheduler: a task that was scheduled is stopped and a new one is scheduled.
StartScheduler ==
  /\ scheduledTask' = TRUE
  /\ UNCHANGED <<channels, apiKeys, proxies, logs, ids, now, roundRobinIndex, relays, probes, jobs,
                 resp, tokens, requestCounts, calls>>

\* stopScheduler: the task, if there is one, is stopped and forgotten.  The
\* function reads and writes nothing else; runKeyCheck has no flag to look at.
StopScheduler ==
  /\ scheduledTask' = FALSE
  /\ UNCHANGED <<channels, apiKeys, proxies, logs, ids, now, roundRobinIndex, relays, probes, jobs,
                 resp, tokens, requestCounts, calls>>

\* db.json as an earlier run left it: an enabled channel with two keys, one
\* active and one never probed; index.ts has called startScheduler.
InitSched ==
  /\ channels = << [id |-> 1, type |-> "openai", proxyId |-> NoId,
                    loadBalanceStrategy |-> "round-robin", enabled |-> TRUE] >>
  /\ apiKeys = << [newApiKey(1, 1, 50, 50) EXCEPT !.status = "active"],
                  newApiKey(2, 1, 50, 50) >>
  /\ proxies = <<>>
  /\ logs = <<>>
  /\ ids = [channel |-> 1, key |-> 2, proxy |-> 0, token |-> 0]
  /\ now = 0
  /\ roundRobinIndex = [c \in {} |-> 0]
  /\ relays = <<>>
  /\ probes = <<>>
  /\ jobs = <<>>
  /\ resp = 0
  /\ tokens = <<>>
  /\ requestCounts = [t \in {} |-> 0]
  /\ calls = <<>>
  /\ scheduledTask = TRUE

\* The cron task fires, its jobs run, and the scheduler is stopped and started.
StopNext ==
  \/ /\ Len(jobs) < MaxJobs
     /\ JobStart(FALSE)
  \/ \E j \in 1..Len(jobs), status \in ProbeStatus : JobResult(j, status)
  \/ \E j \in 1..Len(jobs) : JobResume(j)
  \/ StopScheduler
  \/ StartScheduler

SpecStop == InitSched /\ [][StopNext]_vars

\* While the scheduler is stopped no job is started and no job goes on to its
\* next probe, and stopping it again changes nothing.
StoppedStartsNoProbe ==
  ~scheduledTask =>
    /\ Len(jobs') = Len(jobs)
    /\ \A j \in 1..Len(jobs) : ~(jobs[j].pc = "paused" /\ jobs'[j].pc = "probing")
    /\ (~scheduledTask' /\ jobs' = jobs => UNCHANGED vars)

\* C31: after stopScheduler has returned the scheduler starts no new probe: a
\* job that was running when stop was called lets the probe in flight finish
\* and starts no further one; stopping again, or with nothing scheduled,
\* changes nothing.
C31_StopStartsNoProbe == [][StoppedStartsNoProbe]_vars

\* Jobs started by the cron task and by POST /api/keys/check-all run while
\* keys are disabled and enabled by hand and the channel is switched off and on.
SchedNext ==
  \/ /\ Len(jobs) < MaxJobs
     /\ \E viaApi \in BOOLEAN : JobStart(viaApi)
  \/ \E j \in 1..Len(jobs), status \in ProbeStatus : JobResult(j, status)
  \/ \E j \in 1..Len(jobs) : JobResume(j)
  \/ \E id \in 1..ids.key, status \in {"disabled", "active"} : KeyPut(id, [status |-> status])
  \/ \E e \in BOOLEAN : ChannelPut(1, [enabled |-> e])

SpecSched == InitSched /\ [][SchedNext]_vars

\* Job j calls checkKey on this step: it was just started, or its timer fired.
startsProbe(j) ==
  /\ j \in 1..Len(jobs')
  /\ jobs'[j].pc = "probing"
  /\ (j <= Len(jobs) => jobs[j].pc = "paused")

\* The key a job turns to is, in the store of that moment, not disabled.
ProbedKeyNotDisabled ==
  \A j \in 1..Len(jobs') :
    startsProbe(j) =>
      LET key == Head(jobs'[j].channelKeys)
      IN hasApiKey(key.id) => getApiKeyById(key.id).status # "disabled"

\* C32: checkAll probes, and writes a result to, only non-disabled keys of
\* enabled channels: a key whose status is disabled when its turn comes in
\* the job, also one disabled by a management update after the job started,
\* is not probed, so the job does not change its status.
C32_DisabledKeysNotProbed == [][ProbedKeyNotDisabled]_vars

running == {j \in 1..Len(jobs) : jobs[j].pc # "done"}

\* C33: checkAll jobs run one after another: a job, started by the cron
\* trigger or by POST /api/keys/check-all, never probes while an earlier job
\* is still running, so no key is probed by two jobs at once.
C33_JobsSequential == Cardinality(running) <= 1

\* ------------------------------------------------------------------ C34
\* What holds of streaming relay r, whose upstream answered 2xx, while and
\* after its body is copied.
streamInOrder(r) ==
  /\ stream(r).written = [i \in 1..stream(r).chunks |-> i]
  /\ (stream(r).chunks > 0 /\ hasApiKey(relays[r].key.id)
        => getApiKeyById(relays[r].key.id).totalRequests >= 1)
  /\ (relays[r].pc = "body" => rowsOf(logs, r) = {})

streamRowKept(r) ==
  /\ Cardinality(rowsOf(logs, r)) = 1
  /\ \A i \in rowsOf(logs, r) : logs[i].streaming /\ logs[i].status = relays[r].upstream

MaxProxied == 2

\* db.json as an earlier run left it: an enabled proxy, and a channel that
\* names it, with two active keys.
InitProxy ==
  /\ channels = << [id |-> 1, type |-> "openai", proxyId |-> 1,
                    loadBalanceStrategy |-> "round-robin", enabled |-> TRUE] >>
  /\ apiKeys = << [newApiKey(1, 1, 50, 50) EXCEPT !.status = "active"],
                  [newApiKey(2, 1, 50, 50) EXCEPT !.status = "active"] >>
  /\ proxies = << [id |-> 1, enabled |-> TRUE] >>
  /\ logs = <<>>
  /\ ids = [channel |-> 1, key |-> 2, proxy |-> 1, token |-> 0]
  /\ now = 0
  /\ roundRobinIndex = [c \in {} |-> 0]
  /\ relays = <<>>
  /\ probes = <<>>
  /\ jobs = <<>>
  /\ resp = 0
  /\ tokens = <<>>
  /\ requestCounts = [t \in {} |-> 0]
  /\ calls = <<>>
  /\ scheduledTask = TRUE

\* The proxy is disabled, enabled and deleted and the channel is pointed at
\* it or at none, while relays, probes and jobs build their requests (every
\* probe finds its key active).
ProxyNext ==
  \/ \E e \in BOOLEAN : ProxyPut(1, [enabled |-> e])
  \/ ProxyDelete(1)
  \/ \E p \in {NoId, 1} : ChannelPut(1, [proxyId |-> p])
  \/ /\ requestsStarted < MaxProxied
     /\ RelayStart(gpt4, {}, FALSE) /\ UNCHANGED gateVars
  \/ /\ requestsStarted < MaxProxied
     /\ ProbeStart(1)
  \/ \E p \in 1..Len(probes) : ProbeResult(p, "active")
  \/ /\ requestsStarted < MaxProxied
     /\ \E viaApi \in BOOLEAN : JobStart(viaApi)
  \/ \E j \in 1..Len(jobs) : JobResult(j, "active")
  \/ \E j \in 1..Len(jobs) : JobResume(j)

SpecProxy == InitProxy /\ [][ProxyNext]_vars

\* Whether `agent` is what a request built now for a channel with this
\* proxyId goes through: the proxy if it is stored and enabled, else none.
agentFits(agent, proxyId) ==
  IF \E i \in 1..Len(proxies) : proxies[i].id = proxyId /\ proxies[i].enabled
  THEN agent = proxyId
  ELSE agent = NoId

\* The steps on which an upstream request is built: a relay is given its
\* pair, checkSingleKey calls checkKey, a job calls checkKey.
relayAgentFits ==
  (Len(relays') = Len(relays) + 1 /\ relays'[Len(relays')].channel # NoId) =>
    agentFits(relays'[Len(relays')].agent, getChannelById(relays'[Len(relays')].channel).proxyId)

probeAgentFits ==
  Len(probes') = Len(probes) + 1 =>
    agentFits(probes'[Len(probes')].agent,
              getChannelById(probes'[Len(probes')].key.channelId).proxyId)

\* A job's probe goes through no proxy that is not stored and enabled.
jobAgentEnabled ==
  \A j \in 1..Len(jobs') :
    (startsProbe(j) /\ jobs'[j].agent # NoId) =>
      hasProxy(jobs'[j].agent) /\ getProxyById(jobs'[j].agent).enabled

\* A job's probe follows the proxyId of the channel as it is stored now.
jobAgentFitsStored ==
  \A j \in 1..Len(jobs') :
    (startsProbe(j) /\ hasChannel(Head(jobs'[j].chans).id)) =>
      agentFits(jobs'[j].agent, getChannelById(Head(jobs'[j].chans).id).proxyId)

\* A job's probe follows the proxyId of the channel object the job holds.
jobAgentFitsHeld ==
  \A j \in 1..Len(jobs') :
    startsProbe(j) => agentFits(jobs'[j].agent, Head(jobs'[j].chans).proxyId)

\* C35: a relay or a probe goes through a proxy exactly when, at the time its
\* upstream request is built, the channel's proxyId names a stored proxy that
\* is enabled; no relay or probe started after a proxy was deleted or
\* disabled uses that proxy, also not a probe of a job that began before.
C35_ProxyUsedIffEnabled ==
  [][relayAgentFits /\ probeAgentFits /\ jobAgentEnabled /\ jobAgentFitsStored]_vars

\* What holds of the jobs as well: no proxy that is deleted or disabled is
\* used, and the proxy used is the one the held channel object names.
ProxyFollowsHeldChannel ==
  [][relayAgentFits /\ probeAgentFits /\ jobAgentEnabled /\ jobAgentFitsHeld]_vars

\* C36: queryLogs is a pure read: for every combination of filters, none at
\* all included, the stored logs, their elements and their order, are the
\* same after the call as before it.
C36_QueryLogsPureRead == [][resp'.route = "logs" => logs' = logs]_vars

\* ------------------------------------------------------------------ requests answered 400 and 503
\* How many chat-completion requests a run of SpecReject sends.
MaxRejects == 3

\* Requests with and without a model arrive while the keys of the one
\* channel are disabled and enabled by hand and earlier relays complete.
RejectNext ==
  \/ /\ Len(relays) < MaxRejects
     /\ \E m \in {gpt4, <<>>} : RelayStart(m, {}, FALSE) /\ UNCHANGED gateVars
  \/ \E r \in 1..Len(relays) : RelayResponse(r, 200)
  \/ \E r \in 1..Len(relays) : RelayBody(r)
  \/ \E id \in 1..ids.key, status \in {"active", "disabled"} : KeyPut(id, [status |-> status])

SpecReject == InitGate /\ [][RejectNext]_vars

\* The step that answers a request 400 or 503.
RejectionChangesNothing ==
  (Len(relays') = Len(relays) + 1 /\ relays'[Len(relays')].status \in {400, 503}) =>
    /\ logs' = logs
    /\ relays'[Len(relays')].rows = 0
    /\ apiKeys' = apiKeys
    /\ roundRobinIndex' = roundRobinIndex

\* C37: a chat-completion request answered 400 (no model) or 503 (no
\* eligible key) appends no RequestLog, changes no field of any key and
\* advances no round-robin cursor.
C37_RejectionChangesNothing == [][RejectionChangesNothing]_vars

\* After a relay that advanced the cursor of channel 1, one request was
\* answered 503 and one 400; the cursor and the log are as the relay left them.
C37_Witness ==
  /\ Len(relays) = 3
  /\ relays[1].channel = 1
  /\ relays[2].status = 503
  /\ relays[3].status = 400
  /\ roundRobinIndex[1] = 1
  /\ Len(logs) = 1

\* ------------------------------------------------------------------ requests the gate turns away
\* The step that answers a request 401 or 403.
GateRejectionTouchesNothing ==
  (Len(calls') = Len(calls) + 1 /\ lastCall.status \in {401, 403}) =>
    /\ tokens' = tokens
    /\ requestCounts' = requestCounts

\* C38: a request the gate rejects with 401 or 403 changes no stored token's
\* lastUsed and no rate-limit counter.
C38_GateRejectionTouchesNothing == [][GateRejectionTouchesNothing]_vars

\* Token 1 was used once, which set its lastUsed and its counter, and was then
\* disabled; a request with its value was answered 403 and one with an unknown
\* value 401, and lastUsed and the counter are as the first request left them.
C38_Witness ==
  /\ Len(calls) = 3
  /\ calls[1].status = 0 /\ calls[1].tokenInfo.id = 1
  /\ calls[2].status = 403
  /\ calls[3].status = 401
  /\ hasToken(1) /\ "lastUsed" \in DOMAIN getTokenById(1)
  /\ 1 \in DOMAIN requestCounts /\ requestCounts[1].count = 1

\* ------------------------------------------------------------------ one response per request
\* res.headersSent of a streaming relay: the first res.write(value) of the
\* reader loop sends the status line and the headers set before the loop.
headersSent(r) == stream(r).written # <<>>

\* The catch block has called res.status(500).json(...) for relay r.
sent500(r) == relays[r].pc = "done" /\ relays[r].status = 500

\* C39: every chat-completion request is answered exactly once: on every
\* path, a failure in the middle of a stream included, the handler starts at
\* most one response and never tries to send a 500 after a response was
\* already started.
C39_NoSecondResponse ==
  \A r \in 1..Len(relays) : sent500(r) => ~headersSent(r)

====
